---- MODULE Spec2Model ----
(***************************************************************************)
(* A model of the buildkite-agent job executor ("bootstrap").              *)
(*                                                                         *)
(* Bootstrap.Start (src/bootstrap/git_test.go, second file of that         *)
(* listing, from line 350 on) is modelled as a sequential state machine:   *)
(* one action per hook script that is run and one per phase body.  The     *)
(* deterministic part of every step is translated from the Go source; the  *)
(* results of child processes (hook scripts, git, the build script) are    *)
(* drawn nondeterministically from small sets.                             *)
(***************************************************************************)
EXTENDS Integers, Sequences, FiniteSets, TLC

(***************************************************************************)
(* Bounds of the model.                                                    *)
(***************************************************************************)
\* the largest number of plugins a job declares
MaxPlugins == 2
\* the largest number of hook files present on disk for one job
MaxHooks == 2

(***************************************************************************)
(* Errors.  A Go error value is nil, an *exec.ExitError carrying the exit  *)
(* status of a child, or any other error (fmt.Errorf, os errors).          *)
(***************************************************************************)
Nil == [kind |-> "nil", code |-> 0]

ExitError(n) == [kind |-> "exit", code |-> n]

OtherError == [kind |-> "error", code |-> 0]

\* shell.GetExitCode: 0 for nil, the child's status for an ExitError and 1
\* for every other error.
GetExitCode(err) ==
    IF err.kind = "nil" THEN 0
    ELSE IF err.kind = "exit" THEN err.code
    ELSE 1

\* fmt.Sprintf("%d", n)
Digits == <<"0", "1", "2", "3", "4", "5", "6", "7", "8", "9">>

RECURSIVE FormatInt(_)
FormatInt(n) ==
    IF n < 0 THEN "-" \o FormatInt(-n)
    ELSE IF n < 10 THEN Digits[n + 1]
    ELSE FormatInt(n \div 10) \o Digits[(n % 10) + 1]

(***************************************************************************)
(* env.Environment: a map from key to value.  A nil *Environment is the    *)
(* empty map.  The values used by the model hold no surrounding blanks or  *)
(* quotes, so Set stores them unchanged.                                   *)
(***************************************************************************)
EmptyEnv == [k \in {} |-> ""]

Get(e, key) == IF key \in DOMAIN e THEN e[key] ELSE ""

Set(e, key, value) ==
    [k \in DOMAIN e \cup {key} |-> IF k = key THEN value ELSE e[k]]

Copy(e) == [k \in DOMAIN e |-> e[k]]

Merge(e, other) ==
    [k \in DOMAIN e \cup DOMAIN other |->
        IF k \in DOMAIN other THEN other[k] ELSE e[k]]

Diff(e, other) ==
    [k \in {x \in DOMAIN e : Get(other, x) # e[x]} |-> e[k]]

(***************************************************************************)
(* The job's inputs.                                                       *)
(***************************************************************************)
\* plugin labels a job may declare, in this order
AllPlugins == <<"alpha", "beta", "gamma">>

\* hook names looked up in each scope
GlobalHookNames ==
    {"environment", "pre-checkout", "checkout", "post-checkout",
     "pre-command", "command", "post-command", "pre-exit"}

LocalHookNames ==
    {"pre-checkout", "post-checkout", "pre-command", "command",
     "post-command", "pre-exit"}

PluginHookNames == GlobalHookNames

Range(s) == {s[i] : i \in 1..Len(s)}

\* every hook file the job with plugin list ps can look up: <<scope, name>>
HookFilesFor(ps) ==
    ({"global"} \X GlobalHookNames) \cup ({"local"} \X LocalHookNames)
        \cup (Range(ps) \X PluginHookNames)

RECURSIVE SubsetsUpTo(_, _)
SubsetsUpTo(S, n) ==
    IF n = 0 THEN {{}}
    ELSE LET P == SubsetsUpTo(S, n - 1)
         IN  P \cup {s \cup {h} : s \in P, h \in S}

\* the environment the agent process starts with (os.Environ())
OsEnviron == [k \in {"PATH", "FOO"} |-> IF k = "PATH" THEN "/bin" ELSE "z"]

\* Config.BinPath, and the checkout directory built from BuildPath,
\* AgentName, OrganizationSlug and PipelineSlug
BinPath == "/agent/bin"

CheckoutPath == "/builds/agent/org/pipeline"

\* Config.PluginsPath
PluginsPath == "/plugins"

\* what a hook script may export
HookExports == {[k \in {"FOO"} |-> "a"]}

\* exit statuses of a hook script, of the build script and of git
HookExitCodes == {0, 5}

ScriptExitCodes == {0, 3}

\* One run of the wrapper script around a hook: the exit status of the hook,
\* the variables it exported, and whether the environment dump it leaves
\* behind can be read afterwards.
HookOutcomes ==
    {[exit |-> 0, exports |-> x, dump |-> TRUE] : x \in HookExports}
        \cup {[exit |-> 0, exports |-> EmptyEnv, dump |-> FALSE]}
        \cup {[exit |-> n, exports |-> EmptyEnv, dump |-> TRUE] :
                n \in HookExitCodes \ {0}}

VARIABLES
    Plugins,            \* Config.Plugins: the declared plugins, in order
    hookFiles,          \* the hook files present on disk
    pc,                 \* control point of Bootstrap.Start
    ph,                 \* index of the running phase in Start's loop
    hk,                 \* index of the next hook of the running hook group
    plugins,            \* b.plugins
    env,                \* b.shell.Env
    commandExitError,   \* CommandPhase's local commandExitError
    exitCode,           \* exit status of the bootstrap process (-1: running)
    log,                \* history: phases, hook calls and bodies, in order
    hookDiffs,          \* history: setUp's environment merged with the diff
                        \*   returned by every hook that succeeded, in order
    lastHookExit,       \* history: exit status of the last hook script run
                        \*   (-1: none yet)
    process,            \* a process.Process, its child and its goroutines
    runner,             \* a child runner deriving the exit status from Wait
    cache,              \* the plugin cache and PluginPhase's checkout loop
    collector,          \* ArtifactUploader.Collect and its file system
    uploader,           \* ArtifactUploader.upload and its goroutines
    streamer,           \* a headerTimesStreamer and the goroutines that call it
    environment,        \* a call of a function of shell.Environment
    merged,             \* a call of MergePlugins
    commandPhase,       \* DefaultCommandPhase and what runs before it
    agents,             \* two agents in PluginPhase for one plugin
    checkoutPhase       \* DefaultCheckoutPhase of one or more bootstraps

vars ==
    <<Plugins, hookFiles, pc, ph, hk, plugins, env,
      commandExitError, exitCode, log, hookDiffs, lastHookExit,
      process, runner, cache, collector,
      uploader, streamer, environment, merged, commandPhase, agents,
      checkoutPhase>>

config == <<Plugins, hookFiles>>

\* the variables of the job executor
bootstrap ==
    <<Plugins, hookFiles, pc, ph, hk, plugins, env,
      commandExitError, exitCode, log, hookDiffs, lastHookExit>>

\* a component that takes no part in the specification at hand
Unused == [pc |-> "unused"]

\* the components other than the job executor
others == <<process, runner, cache, collector,
      uploader, streamer, environment, merged, commandPhase, agents,
      checkoutPhase>>

(***************************************************************************)
(* Hook executor.                                                          *)
(***************************************************************************)
fileExists(path) == path \in hookFiles

\* Plugin.ConfigurationToEnvironment; the global and local hooks get nil
Environ(scope) ==
    IF scope \in {"global", "local"} THEN EmptyEnv
    ELSE [k \in {"BUILDKITE_PLUGIN_" \o scope \o "_RUN"} |-> "app"]

\* hookScript.Environment: the variables the script left added or changed,
\* compared with the environment it was started with
ScriptEnvironment(before, exports) == Diff(Merge(before, exports), before)

\* applyEnvironmentChanges
applyEnvironmentChanges(e, environ) == Merge(e, environ)

\* the deferred function of executeHook: b.shell.Env = previousEnviron
RestoreEnviron(previousEnviron, current) == previousEnviron

\* executeHook(name, hookPath, environ) started with b.shell.Env = e, the
\* wrapper script ending as o says.  The result: b.shell.Env afterwards, the
\* error returned, whether the script ran, the changes it reported.
executeHook(e, scope, name, o) ==
    IF ~fileExists(<<scope, name>>)
    THEN [env |-> e, err |-> Nil, ran |-> FALSE, changes |-> EmptyEnv]
    ELSE LET previousEnviron == Copy(e)
             running == Merge(e, Environ(scope))
         IN  IF o.exit # 0
             THEN [env |-> RestoreEnviron(previousEnviron,
                              Set(running, "BUILDKITE_LAST_HOOK_EXIT_STATUS",
                                  FormatInt(GetExitCode(ExitError(o.exit))))),
                   err |-> ExitError(o.exit), ran |-> TRUE,
                   changes |-> EmptyEnv]
             ELSE LET ok == Set(running, "BUILDKITE_LAST_HOOK_EXIT_STATUS", "0")
                      changes == ScriptEnvironment(running, o.exports)
                  IN  IF ~o.dump
                      THEN [env |-> RestoreEnviron(previousEnviron, ok),
                            err |-> OtherError, ran |-> TRUE,
                            changes |-> EmptyEnv]
                      ELSE [env |-> RestoreEnviron(previousEnviron,
                                       applyEnvironmentChanges(ok, changes)),
                            err |-> Nil, ran |-> TRUE, changes |-> changes]

\* a faulty order of the calls: the local hook before the global one
HookOrderLocalFirst(ps) == <<"local", "global">> \o ps

\* the order of the three calls executeGlobalHook, executeLocalHook,
\* executePluginHook (which ranges over the plugins in declared order)
HookOrder(ps) == <<"global", "local">> \o ps

\* pluginHookExists
pluginHookExists(ps, name) ==
    \E i \in 1..Len(ps) : fileExists(<<ps[i], name>>)

(***************************************************************************)
(* History.                                                                *)
(***************************************************************************)
\* the history holds the hooks whose script was run, with what executeHook
\* returned, and marks for the steps of Start and of the phases
HookEvent(scope, name, r) ==
    IF r.ran
    THEN <<[ev |-> "hook", scope |-> scope, name |-> name, err |-> r.err]>>
    ELSE <<>>

Mark(ev, name, err) == [ev |-> ev, scope |-> "", name |-> name, err |-> err]

(***************************************************************************)
(* Hook groups: executeGlobalHook(name), executeLocalHook(name) and        *)
(* executePluginHook(b.plugins, name), called one after the other; the     *)
(* first error ends the group.  One step of the model goes through the     *)
(* calls of the group from hook hk on, up to and including the first one   *)
(* whose script runs, and on through the calls that follow it and find no  *)
(* file (executeHook returns nil for them and changes nothing).            *)
(***************************************************************************)
\* a wrapper script that is never started
NoRun == [exit |-> 0, exports |-> EmptyEnv, dump |-> TRUE]

\* the first hook of scopes, from i on, whose file exists (none: Len + 1)
NextPresent(scopes, name, i) ==
    LET S == {j \in i..Len(scopes) : fileExists(<<scopes[j], name>>)}
    IN  IF S = {} THEN Len(scopes) + 1
        ELSE CHOOSE j \in S : \A k \in S : j <= k

\* the ways the next step of the group can go
GroupRuns(scopes, name) ==
    IF NextPresent(scopes, name, hk) <= Len(scopes) THEN HookOutcomes
    ELSE {NoRun}

\* one step through the group: b.shell.Env afterwards, the error that ended
\* the group (or nil), whether the group is finished, the hook to go on
\* with, the history
RunHooks(scopes, name, o) ==
    LET j == NextPresent(scopes, name, hk)
    IN  IF j > Len(scopes)
        THEN [env |-> env, err |-> Nil, done |-> TRUE, next |-> j,
              events |-> log, hookDiffs |-> hookDiffs,
              lastHookExit |-> lastHookExit]
        ELSE LET r == executeHook(env, scopes[j], name, o)
                 j2 == NextPresent(scopes, name, j + 1)
                 ran == log \o HookEvent(scopes[j], name, r)
             IN  IF r.err # Nil
                 THEN [env |-> r.env, err |-> r.err, done |-> TRUE,
                       next |-> j + 1, events |-> ran,
                       hookDiffs |-> hookDiffs, lastHookExit |-> o.exit]
                 ELSE [env |-> r.env, err |-> Nil,
                       done |-> j2 > Len(scopes), next |-> j2,
                       events |-> ran,
                       hookDiffs |-> Merge(hookDiffs, r.changes),
                       lastHookExit |-> o.exit]

\* what a step through a hook group leaves in b.shell.Env and the history
\* of the hooks
Ran(g) ==
    /\ env' = g.env
    /\ hookDiffs' = g.hookDiffs
    /\ lastHookExit' = g.lastHookExit

(***************************************************************************)
(* Bootstrap.Start.                                                        *)
(***************************************************************************)
\* the phases Start runs, in order
phases == <<"PluginPhase", "CheckoutPhase", "CommandPhase">>

\* the first control point of a phase
PhaseEntry(name) ==
    CASE name = "PluginPhase" -> "PluginPhase"
      [] name = "CheckoutPhase" -> "CheckoutPhase.pre"
      [] name = "CommandPhase" -> "CommandPhase.pre"

\* a faulty test on what a phase returned: the error is ignored
PhaseNeverFailed(err) == FALSE

\* Start's test on what a phase returned: if err := phase(); err != nil
PhaseFailed(err) == err # Nil

\* what setUp returns when its global environment hook returned hookErr
setUpResult(hookErr) == IF hookErr # Nil THEN Nil ELSE Nil

\* go on with hook i of the running group
NextHook(i, events) ==
    /\ hk' = i
    /\ log' = events
    /\ UNCHANGED <<pc, ph, exitCode>>

\* go on at another control point of the running phase
Goto(label, events) ==
    /\ pc' = label
    /\ hk' = 1
    /\ log' = events
    /\ UNCHANGED <<ph, exitCode>>

\* Start's loop, the running phase having returned err: os.Exit with the
\* error's exit code (os.Exit ends the process at once, deferred functions
\* are not run), else the next phase, else Start returns and its deferred
\* function calls tearDown.
PhaseReturns(err, events) ==
    LET returned == Append(events, Mark("return", phases[ph], err))
    IN  IF PhaseFailed(err)
        THEN /\ pc' = "exited"
             /\ exitCode' = GetExitCode(err)
             /\ hk' = 1
             /\ ph' = ph
             /\ log' = returned
        ELSE IF ph < Len(phases)
        THEN /\ pc' = PhaseEntry(phases[ph + 1])
             /\ ph' = ph + 1
             /\ hk' = 1
             /\ log' = Append(returned, Mark("phase", phases[ph + 1], Nil))
             /\ exitCode' = exitCode
        ELSE /\ pc' = "tearDown"
             /\ hk' = 1
             /\ ph' = ph
             /\ log' = Append(returned, Mark("tearDown", "tearDown", Nil))
             /\ exitCode' = exitCode

Init ==
    /\ \E n \in 0..MaxPlugins : Plugins = SubSeq(AllPlugins, 1, n)
    /\ hookFiles \in SubsetsUpTo(HookFilesFor(Plugins), MaxHooks)
    /\ pc = "setUp"
    /\ ph = 0
    /\ hk = 1
    /\ plugins = <<>>
    /\ env = OsEnviron
    /\ commandExitError = Nil
    /\ exitCode = -1
    /\ log = <<>>
    /\ hookDiffs = EmptyEnv
    /\ lastHookExit = -1
    /\ process = Unused
    /\ runner = Unused
    /\ cache = Unused
    /\ collector = Unused
    /\ uploader = Unused
    /\ streamer = Unused
    /\ environment = Unused
    /\ merged = Unused
    /\ checkoutPhase = Unused
    /\ commandPhase = Unused
    /\ agents = Unused

\* Start up to the loop over the phases: setUp, and the deferred tearDown
SetUp ==
    /\ pc = "setUp"
    /\ \E o \in GroupRuns(<<"global">>, "environment") :
         LET e0 == OsEnviron
             e1 == IF BinPath # ""
                   THEN Set(e0, "PATH", BinPath \o ":" \o Get(e0, "PATH"))
                   ELSE e0
             e2 == Set(e1, "BUILDKITE_BUILD_CHECKOUT_PATH", CheckoutPath)
             e3 == Set(e2, "GIT_TERMINAL_PROMPT", "0")
             r == executeHook(e3, "global", "environment", o)
             err == setUpResult(r.err)
             events == <<Mark("setUp", "setUp", err)>>
                          \o HookEvent("global", "environment", r)
         IN  /\ env' = r.env
             /\ hookDiffs' = IF r.ran /\ r.err = Nil
                             THEN Merge(e3, r.changes) ELSE e3
             /\ lastHookExit' = IF r.ran THEN o.exit ELSE lastHookExit
             /\ IF err # Nil
                THEN /\ pc' = "exited"
                     /\ exitCode' = 1
                     /\ ph' = ph
                     /\ log' = events
                ELSE /\ pc' = PhaseEntry(phases[1])
                     /\ ph' = 1
                     /\ log' = Append(events, Mark("phase", phases[1], Nil))
                     /\ exitCode' = exitCode
    /\ hk' = 1
    /\ UNCHANGED <<others, config, plugins, commandExitError>>

(***************************************************************************)
(* PluginPhase.                                                            *)
(***************************************************************************)
\* what checking out one plugin can return: nil (found in the cache, or
\* cloned), or the error of MkdirAll, of the lock, of Chdir or of git
PluginCheckoutResults ==
    {Nil, OtherError} \cup {ExitError(n) : n \in ScriptExitCodes \ {0}}

PluginPhase ==
    /\ pc = "PluginPhase"
    /\ IF Plugins = <<>>
       THEN /\ PhaseReturns(Nil, log)
            /\ plugins' = plugins
       ELSE IF PluginsPath = ""
       THEN /\ PhaseReturns(OtherError, log)
            /\ plugins' = plugins
       ELSE /\ plugins' = Plugins
            /\ Goto("PluginPhase.checkout", log)
    /\ UNCHANGED <<others, config, env, commandExitError, hookDiffs, lastHookExit>>

\* one round of PluginPhase's loop over b.plugins
PluginCheckout ==
    /\ pc = "PluginPhase.checkout"
    /\ \E res \in PluginCheckoutResults :
         LET events == Append(log, Mark("plugin", plugins[hk], res))
         IN  IF res # Nil THEN PhaseReturns(res, events)
             ELSE IF hk < Len(plugins) THEN NextHook(hk + 1, events)
             ELSE Goto("PluginPhase.environment", events)
    /\ UNCHANGED <<others, config, plugins, env, commandExitError, hookDiffs,
                   lastHookExit>>

\* executePluginHook(b.plugins, "environment")
PluginEnvironmentHook ==
    /\ pc = "PluginPhase.environment"
    /\ \E o \in GroupRuns(plugins, "environment") :
         LET g == RunHooks(plugins, "environment", o)
         IN  /\ Ran(g)
             /\ IF g.done THEN PhaseReturns(g.err, g.events)
                ELSE NextHook(g.next, g.events)
    /\ UNCHANGED <<others, config, plugins, commandExitError>>

(***************************************************************************)
(* CheckoutPhase.                                                          *)
(***************************************************************************)
\* what DefaultCheckoutPhase can return: nil or the error of a git command
DefaultCheckoutPhase ==
    {Nil} \cup {ExitError(n) : n \in ScriptExitCodes \ {0}}

\* the pre-checkout hooks: global, local, plugins
CheckoutPreHook ==
    /\ pc = "CheckoutPhase.pre"
    /\ \E o \in GroupRuns(HookOrder(plugins), "pre-checkout") :
         LET g == RunHooks(HookOrder(plugins), "pre-checkout", o)
         IN  /\ Ran(g)
             /\ IF g.err # Nil THEN PhaseReturns(g.err, g.events)
                ELSE IF g.done THEN Goto("CheckoutPhase.body", g.events)
                ELSE NextHook(g.next, g.events)
    /\ UNCHANGED <<others, config, plugins, commandExitError>>

\* the build directory is prepared (RemoveAll, MkdirAll, Chdir), then the
\* global checkout hook, else the plugins' checkout hooks, else
\* DefaultCheckoutPhase
CheckoutBody ==
    /\ pc = "CheckoutPhase.body"
    /\ \E prepared \in {Nil, OtherError} :
         LET started == Append(log, Mark("body", "checkout", Nil))
         IN  IF prepared # Nil
             THEN /\ PhaseReturns(prepared, started)
                  /\ UNCHANGED <<env, hookDiffs, lastHookExit>>
             ELSE IF fileExists(<<"global", "checkout">>)
             THEN \E o \in HookOutcomes :
                    LET r == executeHook(env, "global", "checkout", o)
                        events == started
                                   \o HookEvent("global", "checkout", r)
                    IN  /\ env' = r.env
                        /\ hookDiffs' = IF r.err = Nil
                                        THEN Merge(hookDiffs, r.changes)
                                        ELSE hookDiffs
                        /\ lastHookExit' = o.exit
                        /\ IF r.err # Nil THEN PhaseReturns(r.err, events)
                           ELSE Goto("CheckoutPhase.post",
                                     Append(events,
                                            Mark("bodyEnd", "checkout", Nil)))
             ELSE IF pluginHookExists(plugins, "checkout")
             THEN /\ Goto("CheckoutPhase.body.plugin", started)
                  /\ UNCHANGED <<env, hookDiffs, lastHookExit>>
             ELSE \E res \in DefaultCheckoutPhase :
                    /\ IF res # Nil THEN PhaseReturns(res, started)
                       ELSE Goto("CheckoutPhase.post",
                                 Append(started,
                                        Mark("bodyEnd", "checkout", Nil)))
                    /\ UNCHANGED <<env, hookDiffs, lastHookExit>>
    /\ UNCHANGED <<others, config, plugins, commandExitError>>

\* executePluginHook(b.plugins, "checkout")
CheckoutBodyPluginHook ==
    /\ pc = "CheckoutPhase.body.plugin"
    /\ \E o \in GroupRuns(plugins, "checkout") :
         LET g == RunHooks(plugins, "checkout", o)
         IN  /\ Ran(g)
             /\ IF g.err # Nil THEN PhaseReturns(g.err, g.events)
                ELSE IF g.done
                THEN Goto("CheckoutPhase.post",
                          Append(g.events, Mark("bodyEnd", "checkout", Nil)))
                ELSE NextHook(g.next, g.events)
    /\ UNCHANGED <<others, config, plugins, commandExitError>>

\* the post-checkout hooks: global, local, plugins.  No hook of the model
\* exports BUILDKITE_BUILD_CHECKOUT_PATH, so the phase ends without Chdir.
CheckoutPostHook ==
    /\ pc = "CheckoutPhase.post"
    /\ \E o \in GroupRuns(HookOrder(plugins), "post-checkout") :
         LET g == RunHooks(HookOrder(plugins), "post-checkout", o)
         IN  /\ Ran(g)
             /\ IF g.done THEN PhaseReturns(g.err, g.events)
                ELSE NextHook(g.next, g.events)
    /\ UNCHANGED <<others, config, plugins, commandExitError>>

(***************************************************************************)
(* CommandPhase.                                                           *)
(***************************************************************************)
\* what DefaultCommandPhase can return: an error (no command is defined,
\* the command may not be evaluated, the build script cannot be written),
\* else what executeScript returns for the build script
DefaultCommandPhase ==
    {Nil, OtherError} \cup {ExitError(n) : n \in ScriptExitCodes \ {0}}

\* a faulty save of the command exit status: always success
SetCommandExitStatusZero(e, err) ==
    Set(e, "BUILDKITE_COMMAND_EXIT_STATUS", "0")

\* b.shell.Env.Set("BUILDKITE_COMMAND_EXIT_STATUS", ...)
SetCommandExitStatus(e, err) ==
    Set(e, "BUILDKITE_COMMAND_EXIT_STATUS", FormatInt(GetExitCode(err)))

\* the scope of the hook CommandPhase executes after it found the command
\* hook of scope `found` ("global" or "local"): executeGlobalHook in both
\* branches
CommandHookExecuted(found) == IF found = "global" THEN "global" ELSE "global"

\* a faulty return of CommandPhase: the command's error is dropped
CommandPhaseResultNil(err) == Nil

\* what CommandPhase returns after the last post-command hook succeeded:
\* return commandExitError
CommandPhaseResult(err) == err

\* the pre-command hooks: global, local, plugins
CommandPreHook ==
    /\ pc = "CommandPhase.pre"
    /\ \E o \in GroupRuns(HookOrder(plugins), "pre-command") :
         LET g == RunHooks(HookOrder(plugins), "pre-command", o)
         IN  /\ Ran(g)
             /\ IF g.err # Nil THEN PhaseReturns(g.err, g.events)
                ELSE IF g.done THEN Goto("CommandPhase.body", g.events)
                ELSE NextHook(g.next, g.events)
    /\ UNCHANGED <<others, config, plugins, commandExitError>>

\* the command: the hook executed for a global or a local command hook,
\* else the plugins' command hooks, else DefaultCommandPhase; then
\* BUILDKITE_COMMAND_EXIT_STATUS is set
CommandBody ==
    /\ pc = "CommandPhase.body"
    /\ LET started == Append(log, Mark("body", "command", Nil))
       IN  IF fileExists(<<"global", "command">>)
                \/ fileExists(<<"local", "command">>)
           THEN LET found == IF fileExists(<<"global", "command">>)
                             THEN "global" ELSE "local"
                    scope == CommandHookExecuted(found)
                IN  \E o \in GroupRuns(<<scope>>, "command") :
                      LET r == executeHook(env, scope, "command", o)
                          events == started
                                     \o HookEvent(scope, "command", r)
                      IN  /\ commandExitError' = r.err
                          /\ env' = SetCommandExitStatus(r.env, r.err)
                          /\ hookDiffs' = IF r.ran /\ r.err = Nil
                                          THEN Merge(hookDiffs, r.changes)
                                          ELSE hookDiffs
                          /\ lastHookExit' = IF r.ran THEN o.exit
                                             ELSE lastHookExit
                          /\ Goto("CommandPhase.post",
                                  Append(events,
                                         Mark("bodyEnd", "command", r.err)))
           ELSE IF pluginHookExists(plugins, "command")
           THEN /\ Goto("CommandPhase.body.plugin", started)
                /\ UNCHANGED <<env, commandExitError, hookDiffs, lastHookExit>>
           ELSE \E res \in DefaultCommandPhase :
                  /\ commandExitError' = res
                  /\ env' = SetCommandExitStatus(env, res)
                  /\ Goto("CommandPhase.post",
                          Append(Append(started, Mark("default", "command", res)),
                                 Mark("bodyEnd", "command", res)))
                  /\ UNCHANGED <<hookDiffs, lastHookExit>>
    /\ UNCHANGED <<others, config, plugins>>

\* executePluginHook(b.plugins, "command"); then
\* BUILDKITE_COMMAND_EXIT_STATUS is set
CommandBodyPluginHook ==
    /\ pc = "CommandPhase.body.plugin"
    /\ \E o \in GroupRuns(plugins, "command") :
         LET g == RunHooks(plugins, "command", o)
         IN  /\ hookDiffs' = g.hookDiffs
             /\ lastHookExit' = g.lastHookExit
             /\ IF g.done
                THEN /\ commandExitError' = g.err
                     /\ env' = SetCommandExitStatus(g.env, g.err)
                     /\ Goto("CommandPhase.post",
                             Append(g.events,
                                    Mark("bodyEnd", "command", g.err)))
                ELSE /\ NextHook(g.next, g.events)
                     /\ env' = g.env
                     /\ UNCHANGED commandExitError
    /\ UNCHANGED <<others, config, plugins>>

\* the post-command hooks: global, local, plugins; then the command's error
CommandPostHook ==
    /\ pc = "CommandPhase.post"
    /\ \E o \in GroupRuns(HookOrder(plugins), "post-command") :
         LET g == RunHooks(HookOrder(plugins), "post-command", o)
         IN  /\ Ran(g)
             /\ IF g.err # Nil THEN PhaseReturns(g.err, g.events)
                ELSE IF g.done
                THEN PhaseReturns(CommandPhaseResult(commandExitError),
                                  g.events)
                ELSE NextHook(g.next, g.events)
    /\ UNCHANGED <<others, config, plugins, commandExitError>>

(***************************************************************************)
(* tearDown, called by the function Start deferred, when Start returns.    *)
(***************************************************************************)
\* the pre-exit hooks: global, local, plugins.  Start logs tearDown's error
\* and returns; the process then ends with status 0.
TearDownHook ==
    /\ pc = "tearDown"
    /\ \E o \in GroupRuns(HookOrder(plugins), "pre-exit") :
         LET g == RunHooks(HookOrder(plugins), "pre-exit", o)
         IN  /\ Ran(g)
             /\ IF g.done
                THEN /\ pc' = "exited"
                     /\ exitCode' = 0
                     /\ hk' = 1
                     /\ ph' = ph
                     /\ log' = Append(g.events,
                                      Mark("tearDownEnd", "tearDown", g.err))
                ELSE NextHook(g.next, g.events)
    /\ UNCHANGED <<others, config, plugins, commandExitError>>

Next ==
    \/ SetUp
    \/ PluginPhase
    \/ PluginCheckout
    \/ PluginEnvironmentHook
    \/ CheckoutPreHook
    \/ CheckoutBody
    \/ CheckoutBodyPluginHook
    \/ CheckoutPostHook
    \/ CommandPreHook
    \/ CommandBody
    \/ CommandBodyPluginHook
    \/ CommandPostHook
    \/ TearDownHook

Spec == Init /\ [][Next]_vars

(***************************************************************************)
(* Properties.                                                             *)
(***************************************************************************)
\* the places of the history holding the runs of the hooks `name`
HookRuns(name) ==
    {i \in 1..Len(log) : log[i].ev = "hook" /\ log[i].name = name}

\* the places of the history holding a mark ev of `name`
Marks(ev, name) ==
    {i \in 1..Len(log) : log[i].ev = ev /\ log[i].name = name}

\* the order in which the hooks of one name are to run
ExpectedOrder == <<"global", "local">> \o Plugins

\* the place of a scope in that order
Position(scope) ==
    CHOOSE k \in 1..Len(ExpectedOrder) : ExpectedOrder[k] = scope

\* the places in that order of the hooks `name` that exist
Existing(name) ==
    {k \in 1..Len(ExpectedOrder) : <<ExpectedOrder[k], name>> \in hookFiles}

\* the hooks `name` were run in that order, each at most once
RunInOrder(name) ==
    \A i, j \in HookRuns(name) :
        i < j => Position(log[i].scope) < Position(log[j].scope)

\* the exit code an error stands for
CodeOf(err) ==
    IF err.kind = "nil" THEN 0 ELSE IF err.kind = "exit" THEN err.code ELSE 1

\* C1 (as claimed): when the bootstrap process has exited, tearDown has been
\* run exactly once, whatever setUp and the phases returned.
C1_TearDownExactlyOnce ==
    pc = "exited" => Cardinality(Marks("tearDown", "tearDown")) = 1

\* C2 (as claimed): when the command failed with exit code n # 0, every
\* post-command hook that exists (global, local, each plugin) has been
\* executed and the process exits with n.
C2_PostCommandAlwaysAll ==
    (pc = "exited" /\ commandExitError # Nil)
        => /\ \A k \in Existing("post-command") :
                \E i \in HookRuns("post-command") :
                    log[i].scope = ExpectedOrder[k]
           /\ exitCode = CodeOf(commandExitError)

\* C2 (amended): when the command failed with exit code n # 0, each
\* post-command hook that exists is executed, in the order global, local,
\* plugins, unless an earlier post-command hook failed; the process exits
\* with n when no post-command hook failed, and with the exit code of the
\* post-command hook that failed otherwise.
C2_PostCommandUntilFailure ==
    (pc = "exited" /\ commandExitError # Nil)
        => LET runs == HookRuns("post-command")
               failed == {i \in runs : log[i].err # Nil}
           IN  /\ RunInOrder("post-command")
               /\ \A k \in Existing("post-command") :
                    (\E i \in runs : log[i].scope = ExpectedOrder[k])
                        <=> (\A j \in failed : k <= Position(log[j].scope))
               /\ failed = {} => exitCode = CodeOf(commandExitError)
               /\ \A j \in failed : exitCode = CodeOf(log[j].err)

\* C2 witness: the build script failed with 3, two post-command hooks ran
\* and succeeded, and the process exited with 3
C2_Witness ==
    /\ pc = "exited"
    /\ commandExitError = ExitError(3)
    /\ exitCode = 3
    /\ Cardinality(HookRuns("post-command")) = 2
    /\ \A i \in HookRuns("post-command") : log[i].err = Nil

\* C3 (as claimed): after setUp the job environment is the environment set
\* up by setUp merged with the diff of every hook that succeeded, in order
\* (the two exit status variables the bootstrap itself sets aside).
C3_EnvIsAccumulatedDiffs ==
    pc # "setUp"
        => \A k \in (DOMAIN env \cup DOMAIN hookDiffs)
                      \ {"BUILDKITE_LAST_HOOK_EXIT_STATUS",
                         "BUILDKITE_COMMAND_EXIT_STATUS"} :
                Get(env, k) = Get(hookDiffs, k)

\* C4: the phases start in the order PluginPhase, CheckoutPhase,
\* CommandPhase; a phase starts only after every earlier phase has returned
\* without error; when PluginPhase or CheckoutPhase returns an error no later
\* phase starts and the process exits with the exit code of that error.
C4_PhasesInOrder ==
    LET order == <<"PluginPhase", "CheckoutPhase", "CommandPhase">>
        started == {i \in 1..Len(log) : log[i].ev = "phase"}
        returned == {i \in 1..Len(log) : log[i].ev = "return"}
    IN  /\ \A i \in started :
              LET k == Cardinality({j \in started : j <= i})
              IN  /\ k <= Len(order)
                  /\ log[i].name = order[k]
                  /\ \A q \in 1..(k - 1) :
                        \E j \in returned :
                            /\ j < i
                            /\ log[j].name = order[q]
                            /\ log[j].err = Nil
        /\ \A j \in returned :
              (log[j].name \in {"PluginPhase", "CheckoutPhase"}
                    /\ log[j].err # Nil)
                 => /\ \A i \in started : i < j
                    /\ pc = "exited"
                    /\ exitCode = CodeOf(log[j].err)

\* C4 witness: CheckoutPhase returned the exit error of a failed hook and
\* the process exited with its code
C4_Witness ==
    /\ pc = "exited"
    /\ exitCode = 5
    /\ \E j \in Marks("return", "CheckoutPhase") : log[j].err = ExitError(5)
    /\ \E j \in Marks("return", "PluginPhase") : log[j].err = Nil

\* C5 (as claimed): when the process has exited and CommandPhase ran,
\* ArtifactPhase ran after it.
C5_ArtifactAfterCommand ==
    pc = "exited"
        => \A i \in Marks("phase", "CommandPhase") :
              \E j \in Marks("phase", "ArtifactPhase") : i < j

\* C6: whenever a post-command hook is about to start, the environment holds
\* BUILDKITE_COMMAND_EXIT_STATUS, and its value is the exit code of the
\* command body written in decimal.
C6_CommandExitStatusSet ==
    pc = "CommandPhase.post"
        => /\ "BUILDKITE_COMMAND_EXIT_STATUS" \in DOMAIN env
           /\ Marks("bodyEnd", "command") # {}
           /\ \A i \in Marks("bodyEnd", "command") :
                 env["BUILDKITE_COMMAND_EXIT_STATUS"] =
                    CASE CodeOf(log[i].err) = 0 -> "0"
                      [] CodeOf(log[i].err) = 1 -> "1"
                      [] CodeOf(log[i].err) = 3 -> "3"
                      [] CodeOf(log[i].err) = 5 -> "5"
                      [] OTHER -> "?"

\* C6 witness: the second post-command hook is about to start after the
\* first one ran, the build script having failed with 3
C6_Witness ==
    /\ pc = "CommandPhase.post"
    /\ commandExitError = ExitError(3)
    /\ HookRuns("post-command") # {}
    /\ env["BUILDKITE_COMMAND_EXIT_STATUS"] = "3"

\* C7 (as claimed): once a hook that exists has been run and exited with n,
\* the environment the later hooks start from holds
\* BUILDKITE_LAST_HOOK_EXIT_STATUS = n.
C7_LastHookExitStatus ==
    (lastHookExit # -1 /\ pc # "exited")
        => /\ "BUILDKITE_LAST_HOOK_EXIT_STATUS" \in DOMAIN env
           /\ env["BUILDKITE_LAST_HOOK_EXIT_STATUS"] =
                 CASE lastHookExit = 0 -> "0"
                   [] lastHookExit = 5 -> "5"
                   [] OTHER -> "?"

\* C8: the pre-checkout, post-checkout, pre-command and post-command hooks
\* are run in the order global, local, then the plugins in the order they
\* were declared; when the body of a phase starts every pre-hook that exists
\* has been run and none is run afterwards; a post-hook is run only after
\* the body of its phase has ended.
C8_HookOrder ==
    /\ \A name \in {"pre-checkout", "post-checkout",
                    "pre-command", "post-command"} : RunInOrder(name)
    /\ \A body \in {"checkout", "command"} :
          LET pre == HookRuns("pre-" \o body)
              post == HookRuns("post-" \o body)
              starts == Marks("body", body)
              ends == Marks("bodyEnd", body)
          IN  /\ starts # {}
                    => /\ \A k \in Existing("pre-" \o body) :
                             \E j \in pre : log[j].scope = ExpectedOrder[k]
                       /\ \A j \in pre : /\ log[j].err = Nil
                                         /\ \A i \in starts : j < i
              /\ post # {}
                    => /\ ends # {}
                       /\ \A j \in post : \A i \in ends : i < j

\* C8 witness: with two plugins the global and the second plugin's
\* pre-command hooks were both run, then the command and a post-command hook
C8_Witness ==
    /\ pc = "exited"
    /\ Plugins = <<"alpha", "beta">>
    /\ \E i, j \in HookRuns("pre-command") :
          /\ i < j
          /\ log[i].scope = "global"
          /\ log[j].scope = "beta"
    /\ Marks("bodyEnd", "command") # {}

\* C9 (as claimed): when the body of CommandPhase has ended exactly one
\* command body has run: the global command hook if it exists, else the
\* local command hook if it exists, else the plugins' command hooks if a
\* plugin has one, else the default command; what was found is what ran, and
\* its result is the command exit status.
C9_OneCommandBody ==
    pc = "CommandPhase.post"
        => LET hooks == HookRuns("command")
               defaults == Marks("default", "command")
               HookRan(scope) ==
                   /\ defaults = {}
                   /\ Cardinality(hooks) = 1
                   /\ \A i \in hooks : /\ log[i].scope = scope
                                       /\ commandExitError = log[i].err
           IN  IF <<"global", "command">> \in hookFiles
                   THEN HookRan("global")
               ELSE IF <<"local", "command">> \in hookFiles
                   THEN HookRan("local")
               ELSE IF \E q \in 1..Len(Plugins) :
                          <<Plugins[q], "command">> \in hookFiles
                   THEN /\ defaults = {}
                        /\ hooks # {}
                        /\ \A i \in hooks :
                              log[i].scope \notin {"global", "local"}
                        /\ \E i \in hooks : \A j \in hooks : j <= i
                        /\ \A i \in hooks :
                              (\A j \in hooks : j <= i)
                                 => commandExitError = log[i].err
               ELSE /\ hooks = {}
                    /\ Cardinality(defaults) = 1
                    /\ \A i \in defaults : commandExitError = log[i].err

\* C10 (as claimed): when the global environment hook run by setUp failed,
\* no phase is started and the process has exited with a failure.
C10_EnvironmentHookFailureStops ==
    (\E i \in HookRuns("environment") :
          log[i].scope = "global" /\ log[i].err # Nil)
        => /\ \A j \in 1..Len(log) : log[j].ev # "phase"
           /\ pc = "exited"
           /\ exitCode # 0

(***************************************************************************)
(* process.Process (src/process/process.go).                               *)
(*                                                                         *)
(* Start runs a child and blocks until it has finished.  The child writes  *)
(* its lines to a kernel buffer (the PTY, or the pipe os/exec creates for  *)
(* a Stdout that is no file).  A copier goroutine moves them from there    *)
(* into lineWriterPipe: in PTY mode the goroutine of Start, that nothing   *)
(* but the wait group waits for; else the goroutine of os/exec, that       *)
(* command.Wait waits for.  lineWriterPipe is an io.Pipe: a Write returns  *)
(* when the reader has taken the data, or fails once the pipe is closed.   *)
(* The scanner goroutine reads the pipe and calls the Handler with each    *)
(* line.  Interrupt can be called from another goroutine at any time.      *)
(***************************************************************************)
\* lines a child writes at most
MaxLines == 4

\* lines the kernel buffer between the child and the copier holds
OsBufCap == 1

\* the job executor taking no part: none of its actions is enabled
BootstrapUnused ==
    /\ Plugins = <<>>
    /\ hookFiles = {}
    /\ pc = "unused"
    /\ ph = 0
    /\ hk = 1
    /\ plugins = <<>>
    /\ env = EmptyEnv
    /\ commandExitError = Nil
    /\ exitCode = -1
    /\ log = <<>>
    /\ hookDiffs = EmptyEnv
    /\ lastHookExit = -1

\* what command.Wait returns for a child that ended with status n
WaitResults(n) == {IF n = 0 THEN Nil ELSE ExitError(n), OtherError}

\* Process.getExitStatus
getExitStatus(waitResult) ==
    LET exitStatus ==
            IF waitResult # Nil
            THEN IF waitResult.kind = "exit" THEN waitResult.code ELSE -1
            ELSE 0
    IN  FormatInt(exitStatus)

\* a faulty order of the statements: close(p.done) before command.Wait()
StartStatementsDoneFirst ==
    <<"done", "Wait", "Close", "getExitStatus", "timeoutWait", "returned">>

\* the statements of Start once the child runs, in order: command.Wait(),
\* lineWriterPipe.Close(), close(p.done), getExitStatus, timeoutWait, return
StartStatements ==
    <<"Wait", "Close", "done", "getExitStatus", "timeoutWait", "returned">>

\* the statement after statement `at`
After(at) ==
    LET i == CHOOSE k \in 1..Len(StartStatements) : StartStatements[k] = at
    IN  StartStatements[i + 1]

\* a faulty timeoutWait: no timeout
timeoutWaitNoTimeout(groupDone, timeAfter) == groupDone

\* timeoutWait: the select returns when the wait group is done or when
\* time.After(10 * time.Second) fires
timeoutWait(groupDone, timeAfter) == groupDone \/ timeAfter

\* a faulty Interrupt: the terminate is sent whatever the interrupt did
InterruptAlwaysTerminate(haveProcess, interruptErr, terminateErr) ==
    [interrupt |-> haveProcess, terminate |-> haveProcess,
     err |-> IF haveProcess THEN terminateErr ELSE Nil]

\* Process.Interrupt, with haveProcess: p.command != nil &&
\* p.command.Process != nil, and what InterruptProcessGroup and
\* TerminateProcessGroup return if called.  The result: the signals sent and
\* the error returned.
Interrupt(haveProcess, interruptErr, terminateErr) ==
    IF ~haveProcess
    THEN [interrupt |-> FALSE, terminate |-> FALSE, err |-> Nil]
    ELSE IF interruptErr # Nil
    THEN [interrupt |-> TRUE, terminate |-> TRUE, err |-> terminateErr]
    ELSE [interrupt |-> TRUE, terminate |-> FALSE, err |-> Nil]

\* the wait group of Start: the PTY copier (PTY mode only) and the scanner
WaitGroupDone ==
    /\ process.scanner = "done"
    /\ process.PTY => process.copier = "done"

ProcInit ==
    /\ BootstrapUnused
    /\ \E pty \in BOOLEAN, n \in 0..MaxLines :
         process =
            [pc |-> "idle", PTY |-> pty, lines |-> n, command |-> FALSE,
             child |-> "none", status |-> 0, written |-> 0, osbuf |-> <<>>,
             copier |-> "off", held |-> 0, pipeClosed |-> FALSE,
             scanner |-> "off", line |-> 0, handled |-> <<>>,
             started |-> 0, done |-> 0, waited |-> FALSE,
             waitResult |-> Nil, ExitStatus |-> "", err |-> Nil,
             timedOut |-> FALSE, signalled |-> FALSE, interrupts |-> <<>>,
             again |-> FALSE]
    /\ runner = Unused
    /\ cache = Unused
    /\ collector = Unused
    /\ uploader = Unused
    /\ streamer = Unused
    /\ environment = Unused
    /\ merged = Unused
    /\ checkoutPhase = Unused
    /\ commandPhase = Unused
    /\ agents = Unused

\* what the actions of the process leave alone
ProcOnly == UNCHANGED <<bootstrap, runner, cache, collector,
      uploader, streamer, environment, merged, commandPhase, agents,
      checkoutPhase>>

\* Start up to the point where the child runs: StartPTY or command.Start
\* fails, or the child runs, p.started is closed and the goroutines run
ProcessStart ==
    /\ process.pc = "idle"
    /\ \E err \in {Nil, OtherError} :
         IF err # Nil
         THEN process' = [process EXCEPT !.pc = "returned",
                                         !.command = TRUE,
                                         !.ExitStatus = "1",
                                         !.err = err]
         ELSE process' = [process EXCEPT !.pc = StartStatements[1],
                                         !.command = TRUE,
                                         !.child = "running",
                                         !.started = @ + 1,
                                         !.copier = "reading",
                                         !.scanner = "reading"]
    /\ ProcOnly

\* Start called again: p.command != nil, an error is returned at once
ProcessStartAgain ==
    /\ process.pc # "idle"
    /\ ~process.again
    /\ process' = [process EXCEPT !.again = TRUE]
    /\ ProcOnly

\* the child writes its next line; the write blocks while the kernel
\* buffer is full
ChildWrite ==
    /\ process.child = "running"
    /\ process.written < process.lines
    /\ Len(process.osbuf) < OsBufCap
    /\ process' = [process EXCEPT !.written = @ + 1,
                                  !.osbuf = Append(@, process.written + 1)]
    /\ ProcOnly

\* the child exits: after its last line, or at once when a signal ends it
ChildExit ==
    /\ process.child = "running"
    /\ \/ /\ process.written = process.lines
          /\ \E n \in ScriptExitCodes :
                process' = [process EXCEPT !.child = "exited", !.status = n]
       \/ /\ process.signalled
          /\ process' = [process EXCEPT !.child = "exited", !.status = -1]
    /\ ProcOnly

\* the copier reads from the kernel buffer: a line, or the end of the
\* output once the child has exited (in PTY mode the EIO that is ignored)
CopierRead ==
    /\ process.copier = "reading"
    /\ IF process.osbuf # <<>>
       THEN process' = [process EXCEPT !.copier = "writing",
                                       !.held = Head(process.osbuf),
                                       !.osbuf = Tail(@)]
       ELSE /\ process.child = "exited"
            /\ process' = [process EXCEPT !.copier = "done"]
    /\ ProcOnly

\* the copier writes the line it holds to lineWriterPipe: the scanner takes
\* it, or the pipe is closed, the Write fails and io.Copy ends
CopierWrite ==
    /\ process.copier = "writing"
    /\ IF process.pipeClosed
       THEN process' = [process EXCEPT !.copier = "done", !.held = 0]
       ELSE /\ process.scanner = "reading"
            /\ process' = [process EXCEPT !.copier = "reading", !.held = 0,
                                          !.scanner = "handling",
                                          !.line = process.held]
    /\ ProcOnly

\* the scanner calls the Handler with the line; the Handler returns, or it
\* never does
ScannerHandle ==
    /\ process.scanner = "handling"
    /\ \E stalls \in BOOLEAN :
         process' = [process EXCEPT
                        !.handled = Append(@, process.line),
                        !.line = 0,
                        !.scanner = IF stalls THEN "stalled" ELSE "reading"]
    /\ ProcOnly

\* the scanner reads the end of the closed pipe and ScanLines returns
ScannerEOF ==
    /\ process.scanner = "reading"
    /\ process.pipeClosed
    /\ process' = [process EXCEPT !.scanner = "done"]
    /\ ProcOnly

\* command.Wait() returns: the child has exited and, when os/exec copies
\* the output itself (no PTY), its copier has reached the end
ProcessWait ==
    /\ process.pc = "Wait"
    /\ process.child = "exited"
    /\ process.PTY \/ process.copier = "done"
    /\ \E r \in WaitResults(process.status) :
         process' = [process EXCEPT !.pc = After("Wait"), !.waited = TRUE,
                                    !.waitResult = r]
    /\ ProcOnly

\* lineWriterPipe.Close()
ProcessClosePipe ==
    /\ process.pc = "Close"
    /\ process' = [process EXCEPT !.pc = After("Close"),
                                  !.pipeClosed = TRUE]
    /\ ProcOnly

\* close(p.done)
ProcessCloseDone ==
    /\ process.pc = "done"
    /\ process' = [process EXCEPT !.pc = After("done"), !.done = @ + 1]
    /\ ProcOnly

\* p.ExitStatus = p.getExitStatus(waitResult)
ProcessGetExitStatus ==
    /\ process.pc = "getExitStatus"
    /\ process' = [process EXCEPT
                      !.pc = After("getExitStatus"),
                      !.ExitStatus = getExitStatus(process.waitResult)]
    /\ ProcOnly

\* timeoutWait returns because the wait group is done; Start returns nil
ProcessDrained ==
    /\ process.pc = "timeoutWait"
    /\ WaitGroupDone
    /\ timeoutWait(TRUE, FALSE)
    /\ process' = [process EXCEPT !.pc = After("timeoutWait")]
    /\ ProcOnly

\* timeoutWait returns because the timeout fired; Start returns nil
ProcessTimeout ==
    /\ process.pc = "timeoutWait"
    /\ timeoutWait(FALSE, TRUE)
    /\ process' = [process EXCEPT !.pc = After("timeoutWait"),
                                  !.timedOut = TRUE]
    /\ ProcOnly

\* Interrupt is called (once) from another goroutine
ProcessInterrupt ==
    /\ process.interrupts = <<>>
    /\ \E interruptErr \in {Nil, OtherError}, terminateErr \in {Nil, OtherError} :
         LET haveProcess == process.child # "none"
             r == Interrupt(haveProcess, interruptErr, terminateErr)
         IN  process' = [process EXCEPT
                !.interrupts =
                    <<[haveProcess |-> haveProcess,
                       interruptErr |-> interruptErr,
                       terminateErr |-> terminateErr,
                       interrupt |-> r.interrupt,
                       terminate |-> r.terminate,
                       err |-> r.err]>>,
                !.signalled = \/ r.interrupt /\ interruptErr = Nil
                              \/ r.terminate /\ terminateErr = Nil]
    /\ ProcOnly

ProcNext ==
    \/ ProcessStart
    \/ ProcessStartAgain
    \/ ChildWrite
    \/ ChildExit
    \/ CopierRead
    \/ CopierWrite
    \/ ScannerHandle
    \/ ScannerEOF
    \/ ProcessWait
    \/ ProcessClosePipe
    \/ ProcessCloseDone
    \/ ProcessGetExitStatus
    \/ ProcessDrained
    \/ ProcessTimeout
    \/ ProcessInterrupt

ProcSpec == ProcInit /\ [][ProcNext]_vars

\* the goroutine of Start runs whenever it can, and the timer fires
ProcLiveSpec ==
    /\ ProcSpec
    /\ WF_vars(ProcessWait)
    /\ WF_vars(ProcessClosePipe)
    /\ WF_vars(ProcessCloseDone)
    /\ WF_vars(ProcessGetExitStatus)
    /\ WF_vars(ProcessTimeout)

\* C11: the done channel is closed at most once, and when it has been closed
\* command.Wait has returned, the writer side of lineWriterPipe has been
\* closed and the child is no longer running.
C11_DoneClosedAfterWait ==
    /\ process.done <= 1
    /\ process.done >= 1 => /\ process.waited
                            /\ process.pipeClosed
                            /\ process.child = "exited"

\* C11 witness: Start has returned with the done channel closed, and a
\* second call of Start has been made
C11_Witness ==
    /\ process.pc = "returned"
    /\ process.done = 1
    /\ process.again

\* C12 (as claimed): when Start has returned nil and the drain timeout did
\* not fire, the Handler has been called with every line the child wrote,
\* once and in the order written, with or without a PTY.
C12_EveryLineHandled ==
    (process.pc = "returned" /\ process.err = Nil /\ ~process.timedOut)
        => process.handled = [i \in 1..process.written |-> i]

\* C13: once command.Wait has returned Start returns, also when a consumer
\* never finishes; it then returns nil and the exit status is set.
C13_StartReturnsAfterWait ==
    /\ [](process.pc = "returned" /\ process.waited
            => process.err = Nil /\ process.ExitStatus # "")
    /\ process.waited ~> process.pc = "returned"

\* C13 witness: Start returned on the timeout while the Handler was stalled,
\* the exit status being that of the child
C13_Witness ==
    /\ process.pc = "returned"
    /\ process.timedOut
    /\ process.scanner = "stalled"
    /\ process.ExitStatus = "3"
    /\ process.err = Nil

\* C15: Interrupt called with no child started sends nothing and returns
\* nil; else it sends the interrupt, sends the terminate exactly when the
\* interrupt failed, and returns an error exactly when both failed.
C15_InterruptThenTerminate ==
    \A i \in 1..Len(process.interrupts) :
        LET c == process.interrupts[i]
        IN  IF ~c.haveProcess
            THEN ~c.interrupt /\ ~c.terminate /\ c.err = Nil
            ELSE /\ c.interrupt
                 /\ c.terminate <=> c.interruptErr # Nil
                 /\ c.err # Nil <=> (c.interruptErr # Nil
                                        /\ c.terminateErr # Nil)

\* C15 witness: the interrupt failed, the terminate was sent and ended the
\* child, and Interrupt returned nil
C15_Witness ==
    /\ process.interrupts # <<>>
    /\ process.interrupts[1].terminate
    /\ process.interrupts[1].err = Nil
    /\ process.child = "exited"
    /\ process.status = -1

\* C16 (as claimed): while the Handler is stalled the child can still write
\* its next line.
C16_HandlerNeverBlocksChild ==
    (process.child = "running" /\ process.written < process.lines
        /\ process.scanner = "stalled")
        => Len(process.osbuf) < OsBufCap

(***************************************************************************)
(* The exit status the two child runners report: Process.Start             *)
(* (src/process/process.go) and subprocess.Run                             *)
(* (src/bootstrap/subprocess.go), from what Wait returned.                 *)
(***************************************************************************)
\* the largest exit status of a child
MaxExitStatus == 60

\* what Wait can return: nil, an ExitError with the status of the child
\* (-1 for a child a signal ended), another error
WaitOutcomes ==
    {Nil, OtherError}
        \cup {ExitError(n) : n \in (-1..MaxExitStatus) \ {0}}

\* subprocess.Run from cmd.Wait() on: p.exitStatus afterwards (Run returns
\* nil), exitStatus being its value before
subprocessExitStatus(exitStatus, waitResult) ==
    IF waitResult # Nil
    THEN IF waitResult.kind = "exit" THEN waitResult.code ELSE exitStatus
    ELSE 0

ExitInit ==
    /\ BootstrapUnused
    /\ process = Unused
    /\ cache = Unused
    /\ collector = Unused
    /\ uploader = Unused
    /\ streamer = Unused
    /\ environment = Unused
    /\ merged = Unused
    /\ checkoutPhase = Unused
    /\ commandPhase = Unused
    /\ agents = Unused
    /\ \E k \in {"Process", "subprocess"}, w \in WaitOutcomes :
         runner = [pc |-> "Wait", kind |-> k, waitResult |-> w,
                   ExitStatus |-> "", exitStatus |-> 0]

\* Process.Start: p.ExitStatus = p.getExitStatus(waitResult)
RunnerProcess ==
    /\ runner.pc = "Wait"
    /\ runner.kind = "Process"
    /\ runner' = [runner EXCEPT
                     !.pc = "returned",
                     !.ExitStatus = getExitStatus(runner.waitResult)]
    /\ UNCHANGED <<bootstrap, process, cache, collector,
      uploader, streamer, environment, merged, commandPhase, agents,
      checkoutPhase>>

\* subprocess.Run: the exit status is taken from waitResult
RunnerSubprocess ==
    /\ runner.pc = "Wait"
    /\ runner.kind = "subprocess"
    /\ runner' = [runner EXCEPT
                     !.pc = "returned",
                     !.exitStatus = subprocessExitStatus(runner.exitStatus,
                                                         runner.waitResult)]
    /\ UNCHANGED <<bootstrap, process, cache, collector,
      uploader, streamer, environment, merged, commandPhase, agents,
      checkoutPhase>>

ExitNext ==
    \/ RunnerProcess
    \/ RunnerSubprocess

ExitSpec == ExitInit /\ [][ExitNext]_vars

\* C14 (as claimed): the exit status a runner reports is 0 when Wait
\* returned nil, the child's status when it returned an ExitError, and -1
\* when it returned any other error.
C14_ExitStatusFromWait ==
    runner.pc = "returned"
        => LET w == runner.waitResult
               expected == IF w.kind = "nil" THEN 0
                           ELSE IF w.kind = "exit" THEN w.code
                           ELSE -1
           IN  IF runner.kind = "Process"
               THEN runner.ExitStatus = FormatInt(expected)
               ELSE runner.exitStatus = expected

(***************************************************************************)
(* Bootstrap.PluginPhase statement by statement: the plugin cache under    *)
(* b.PluginsPath, the lock of each plugin, the git commands issued.        *)
(***************************************************************************)
\* how many times PluginPhase runs on the same cache
MaxRuns == 2

PluginVersions == {"", "v1"}

\* the error of a failed os call, lock or git command
PluginFailures == {OtherError, ExitError(128)}

\* the plugin of the current round of the loop
CurrentPlugin == cache.plugins[cache.i]

\* fileExists(pluginGitDirectory)
pluginGitDirectoryExists(c, id) == id \in c.gitDirs

\* `continue` and the end of the loop body
PluginNextRound(c) ==
    IF c.i < Len(c.plugins)
    THEN [c EXCEPT !.i = c.i + 1, !.pc = "fileExists"]
    ELSE [c EXCEPT !.pc = "environment"]

\* return err
PluginReturn(c, err) == [c EXCEPT !.pc = "returned", !.err = err]

\* b.shell.Run(command) for the current plugin
PluginRun(c, command) ==
    [c EXCEPT !.commands =
        Append(c.commands, [run |-> c.run, id |-> c.plugins[c.i].id,
                            command |-> command])]

CacheOnly == UNCHANGED <<bootstrap, process, runner, collector,
      uploader, streamer, environment, merged, commandPhase, agents,
      checkoutPhase>>

PluginInit ==
    /\ BootstrapUnused
    /\ process = Unused
    /\ runner = Unused
    /\ collector = Unused
    /\ uploader = Unused
    /\ streamer = Unused
    /\ environment = Unused
    /\ merged = Unused
    /\ checkoutPhase = Unused
    /\ commandPhase = Unused
    /\ agents = Unused
    /\ \E n \in 0..MaxPlugins :
         \E versions \in [1..n -> PluginVersions],
            cached \in SUBSET {AllPlugins[k] : k \in 1..n} :
           cache = [pc |-> "PluginPhase", run |-> 1, i |-> 1,
                    plugins |-> [k \in 1..n |->
                                   [id |-> AllPlugins[k],
                                    Version |-> versions[k]]],
                    gitDirs |-> cached, held |-> {}, commands |-> <<>>,
                    checkedOut |-> {}, err |-> Nil]

\* PluginPhase up to the loop over b.plugins
PluginPhaseEnter ==
    /\ cache.pc = "PluginPhase"
    /\ cache' = IF cache.plugins = <<>> THEN PluginReturn(cache, Nil)
                ELSE IF PluginsPath = "" THEN PluginReturn(cache, OtherError)
                ELSE [cache EXCEPT !.pc = "fileExists"]
    /\ CacheOnly

\* the plugin has been checked out already
PluginFound ==
    /\ cache.pc = "fileExists"
    /\ pluginGitDirectoryExists(cache, CurrentPlugin.id)
    /\ cache' = PluginNextRound(cache)
    /\ CacheOnly

\* os.MkdirAll(directory, 0777)
PluginMkdirAll ==
    /\ cache.pc = "fileExists"
    /\ ~pluginGitDirectoryExists(cache, CurrentPlugin.id)
    /\ \E err \in {Nil, OtherError} :
         cache' = IF err # Nil THEN PluginReturn(cache, err)
                  ELSE [cache EXCEPT !.pc = "LockFileWithTimeout"]
    /\ CacheOnly

\* another agent on the host checks the plugin out while this one waits
\* for the lock
PluginOtherAgent ==
    /\ cache.pc = "LockFileWithTimeout"
    /\ ~pluginGitDirectoryExists(cache, CurrentPlugin.id)
    /\ cache' = [cache EXCEPT !.gitDirs = @ \cup {CurrentPlugin.id}]
    /\ CacheOnly

\* shell.LockFileWithTimeout(b.shell, id+".lock", 5 minutes)
PluginLockFile ==
    /\ cache.pc = "LockFileWithTimeout"
    /\ \E err \in {Nil, OtherError} :
         cache' = IF err # Nil THEN PluginReturn(cache, err)
                  ELSE [cache EXCEPT !.pc = "locked",
                                     !.held = @ \cup {CurrentPlugin.id}]
    /\ CacheOnly

\* with the lock: did another process check the plugin out meanwhile?
PluginLocked ==
    /\ cache.pc = "locked"
    /\ cache' = IF pluginGitDirectoryExists(cache, CurrentPlugin.id)
                THEN PluginNextRound(
                         [cache EXCEPT !.held = @ \ {CurrentPlugin.id}])
                ELSE [cache EXCEPT !.pc = "Repository"]
    /\ CacheOnly

\* p.Repository()
PluginRepository ==
    /\ cache.pc = "Repository"
    /\ \E err \in {Nil, OtherError} :
         cache' = IF err # Nil THEN PluginReturn(cache, err)
                  ELSE [cache EXCEPT !.pc = "Chdir"]
    /\ CacheOnly

\* b.shell.Chdir(directory)
PluginChdir ==
    /\ cache.pc = "Chdir"
    /\ \E err \in {Nil, OtherError} :
         cache' = IF err # Nil THEN PluginReturn(cache, err)
                  ELSE [cache EXCEPT !.pc = "clone"]
    /\ CacheOnly

\* b.shell.Run("git clone -v -- %q .", repo)
PluginClone ==
    /\ cache.pc = "clone"
    /\ \E err \in {Nil} \cup PluginFailures :
         LET c == PluginRun(cache, "clone")
         IN  cache' =
               IF err # Nil THEN PluginReturn(c, err)
               ELSE [c EXCEPT !.gitDirs = @ \cup {CurrentPlugin.id},
                              !.pc = IF CurrentPlugin.Version # ""
                                     THEN "Version" ELSE "ChdirBack"]
    /\ CacheOnly

\* p.Version != "": b.shell.Run("git clone -v -- %q .", repo)
PluginVersionClone ==
    /\ cache.pc = "Version"
    /\ \E err \in {Nil} \cup PluginFailures :
         LET c == PluginRun(cache, "clone")
         IN  cache' = IF err # Nil THEN PluginReturn(c, err)
                      ELSE [c EXCEPT !.pc = "checkout"]
    /\ CacheOnly

\* b.shell.Run("git checkout -f %q", p.Version)
PluginVersionCheckout ==
    /\ cache.pc = "checkout"
    /\ \E err \in {Nil} \cup PluginFailures :
         LET c == PluginRun(cache, "checkout")
         IN  cache' = IF err # Nil THEN PluginReturn(c, err)
                      ELSE [c EXCEPT !.pc = "ChdirBack"]
    /\ CacheOnly

\* b.shell.Chdir(previousWd)
PluginChdirBack ==
    /\ cache.pc = "ChdirBack"
    /\ \E err \in {Nil, OtherError} :
         cache' = IF err # Nil THEN PluginReturn(cache, err)
                  ELSE [cache EXCEPT !.pc = "Unlock"]
    /\ CacheOnly

\* pluginCheckoutHook.Unlock() once the plugin is checked out
PluginUnlock ==
    /\ cache.pc = "Unlock"
    /\ cache' = PluginNextRound(
                    [cache EXCEPT
                        !.held = @ \ {CurrentPlugin.id},
                        !.checkedOut = @ \cup {[run |-> cache.run,
                                                id |-> CurrentPlugin.id]}])
    /\ CacheOnly

\* b.executePluginHook(b.plugins, "environment")
PluginEnvironment ==
    /\ cache.pc = "environment"
    /\ \E err \in {Nil, ExitError(1)} :
         cache' = PluginReturn(cache, err)
    /\ CacheOnly

\* the bootstrap of a later job runs PluginPhase on the same cache
PluginPhaseAgain ==
    /\ cache.pc = "returned"
    /\ cache.run < MaxRuns
    /\ cache' = [cache EXCEPT !.pc = "PluginPhase", !.run = cache.run + 1,
                              !.i = 1, !.held = {}, !.err = Nil]
    /\ CacheOnly

PluginNext ==
    \/ PluginPhaseEnter
    \/ PluginFound
    \/ PluginMkdirAll
    \/ PluginOtherAgent
    \/ PluginLockFile
    \/ PluginLocked
    \/ PluginRepository
    \/ PluginChdir
    \/ PluginClone
    \/ PluginVersionClone
    \/ PluginVersionCheckout
    \/ PluginChdirBack
    \/ PluginUnlock
    \/ PluginEnvironment
    \/ PluginPhaseAgain

PluginSpec == PluginInit /\ [][PluginNext]_vars

\* the commands of one kind PluginPhase issued for a plugin in a run
Issued(command, id, run) ==
    Len(SelectSeq(cache.commands,
                  LAMBDA x : x.command = command /\ x.id = id
                             /\ x.run = run))

\* C17 (as claimed): whenever PluginPhase returns, with success or with any
\* error, no plugin lock acquired during the call is still held.
C17_NoLockHeldOnReturn ==
    cache.pc = "returned" => cache.held = {}

\* C18 (as claimed): a run of PluginPhase issues at most one git clone for
\* a plugin; the run that checks an uncached plugin out issues exactly one
\* git clone, and one git checkout exactly when a version is set; runs
\* after it issue no git clone for the plugin.
C18_OneCloneThenNone ==
    \A k \in 1..Len(cache.plugins) :
        LET p == cache.plugins[k]
        IN  \A r \in 1..cache.run :
              /\ Issued("clone", p.id, r) <= 1
              /\ [run |-> r, id |-> p.id] \in cache.checkedOut
                   => /\ Issued("clone", p.id, r) = 1
                      /\ Issued("checkout", p.id, r)
                           = (IF p.Version # "" THEN 1 ELSE 0)
                      /\ \A later \in (r + 1)..cache.run :
                           Issued("clone", p.id, later) = 0

(***************************************************************************)
(* ArtifactUploader.Collect (src/agent/artifact_uploader.go) on a small    *)
(* file system.  A path is its list of components and whether it is        *)
(* absolute.                                                               *)
(***************************************************************************)
\* how many prospects a.conf.Paths holds
MaxProspects == 2

AbsPath(parts) == [abs |-> TRUE, parts |-> parts]
RelPath(parts) == [abs |-> FALSE, parts |-> parts]

\* the file system: /w is the working directory, /w/l.txt a symbolic link
\* to /w/a.txt; listed in the lexical order of a walk
FsEntries ==
    << [path |-> AbsPath(<<"w">>), type |-> "dir"],
       [path |-> AbsPath(<<"w", "a.txt">>), type |-> "file"],
       [path |-> AbsPath(<<"w", "d">>), type |-> "dir"],
       [path |-> AbsPath(<<"w", "d", "b.txt">>), type |-> "file"],
       [path |-> AbsPath(<<"w", "l.txt">>), type |-> "symlink",
        target |-> AbsPath(<<"w", "a.txt">>)],
       [path |-> AbsPath(<<"x">>), type |-> "dir"],
       [path |-> AbsPath(<<"x", "c.txt">>), type |-> "file"] >>

\* os.Getwd()
Getwd == AbsPath(<<"w">>)

FsRoot == AbsPath(<<>>)

TxtNames == {"a.txt", "b.txt", "c.txt", "l.txt"}

\* the prospects a.conf.Paths is made of: globs, directories, a literal
\* file and an empty entry, relative and absolute
ProspectPatterns ==
    { RelPath(<<"*.txt">>), RelPath(<<"d">>), RelPath(<<"d", "*.txt">>),
      RelPath(<<"a.txt">>), RelPath(<<>>),
      AbsPath(<<"x", "*.txt">>), AbsPath(<<"w", "d">>),
      AbsPath(<<"w", "*.txt">>) }

SeqsUpTo(S, n) == UNION {[1..k -> S] : k \in 1..n}

IsPrefix(s, t) == Len(s) <= Len(t) /\ SubSeq(t, 1, Len(s)) = s

EntryAt(path) ==
    LET found == SelectSeq(FsEntries, LAMBDA e : e.path = path)
    IN  IF found = <<>> THEN [type |-> "none"] ELSE found[1]

\* filepath.IsAbs
IsAbs(path) == path.abs

\* filepath.Abs: a relative path is joined to the current directory
Abs(path) ==
    IF IsAbs(path) THEN path ELSE AbsPath(Getwd.parts \o path.parts)

\* filepath.EvalSymlinks
EvalSymlinks(path) ==
    IF EntryAt(path).type = "symlink" THEN EntryAt(path).target ELSE path

\* os.Stat follows links, os.Lstat does not
isDir(path) == EntryAt(EvalSymlinks(path)).type = "dir"
isSymlink(path) == EntryAt(path).type = "symlink"

RECURSIVE CommonPrefix(_, _)
CommonPrefix(s, t) ==
    IF s # <<>> /\ t # <<>> /\ Head(s) = Head(t)
    THEN 1 + CommonPrefix(Tail(s), Tail(t))
    ELSE 0

\* filepath.Rel(basepath, targpath) of two absolute paths: ".." for each
\* component of basepath after the common prefix, then the rest of targpath
Rel(basepath, targpath) ==
    LET n == CommonPrefix(basepath.parts, targpath.parts)
    IN  RelPath([k \in 1..(Len(basepath.parts) - n) |-> ".."]
                    \o SubSeq(targpath.parts, n + 1, Len(targpath.parts)))

\* a glob component matches a name: "*.txt" any name ending in .txt
MatchName(pattern, name) ==
    IF pattern = "*.txt" THEN name \in TxtNames ELSE pattern = name

MatchParts(pattern, parts) ==
    /\ Len(pattern) = Len(parts)
    /\ \A k \in 1..Len(parts) : MatchName(pattern[k], parts[k])

\* zglob.Glob / zglob.GlobFollowSymlinks: the entries the pattern matches,
\* named as the pattern names them (relative to the current directory for a
\* relative pattern)
Glob(globPath) ==
    IF IsAbs(globPath)
    THEN LET matches ==
                 SelectSeq(FsEntries,
                           LAMBDA e : MatchParts(globPath.parts, e.path.parts))
         IN  [k \in 1..Len(matches) |-> matches[k].path]
    ELSE LET matches ==
                 SelectSeq(FsEntries,
                           LAMBDA e : /\ IsPrefix(Getwd.parts, e.path.parts)
                                      /\ e.path # Getwd
                                      /\ MatchParts(globPath.parts,
                                            Rel(Getwd, e.path).parts))
         IN  [k \in 1..Len(matches) |-> Rel(Getwd, matches[k].path)]

\* filepath.WalkDir(root, fn): root and everything below it
WalkDir(root) ==
    LET below == SelectSeq(FsEntries,
                           LAMBDA e : IsPrefix(root.parts, e.path.parts))
    IN  [k \in 1..Len(below) |-> below[k].path]

\* a.build(path, absolutePath, globPath)
build(path, absolutePath, globPath) ==
    [Path |-> path, AbsolutePath |-> absolutePath, GlobPath |-> globPath]

\* the WalkDir callback of the first loop over the files of a directory
RECURSIVE WalkFiles(_, _, _)
WalkFiles(files, literalPath, c) ==
    IF files = <<>> THEN c
    ELSE LET p == Head(files)
             path == IF c.GlobResolveFollowSymlinks THEN EvalSymlinks(p)
                     ELSE p
         IN  IF p \in c.seenPaths \/ EntryAt(p).type = "dir"
             THEN WalkFiles(Tail(files), literalPath, c)
             ELSE WalkFiles(Tail(files), literalPath,
                    [c EXCEPT
                       !.seenPaths = @ \cup {p},
                       !.artifacts =
                          Append(@, build(Rel(c.wd, path), p, literalPath))])

\* the body of the second loop over the files of a glob
RECURSIVE GlobFiles(_, _, _)
GlobFiles(files, globPath, c) ==
    IF files = <<>> THEN c
    ELSE LET absolutePath == Abs(Head(files))
             seen == [c EXCEPT !.seenPaths = @ \cup {absolutePath}]
             wd == IF IsAbs(globPath) THEN FsRoot ELSE c.wd
         IN  IF absolutePath \in c.seenPaths
             THEN GlobFiles(Tail(files), globPath, c)
             ELSE IF \/ isDir(absolutePath)
                     \/ c.UploadSkipSymlinks /\ isSymlink(absolutePath)
             THEN GlobFiles(Tail(files), globPath, seen)
             ELSE GlobFiles(Tail(files), globPath,
                    [seen EXCEPT
                       !.wd = wd,
                       !.artifacts =
                          Append(@, build(Rel(wd, absolutePath),
                                          absolutePath, globPath))])

\* the end of a round of a loop over prospects
CollectNextProspect(c) ==
    IF c.i < Len(c.prospects) THEN [c EXCEPT !.i = c.i + 1]
    ELSE IF c.pc = "directories" THEN [c EXCEPT !.pc = "globs", !.i = 1]
    ELSE [c EXCEPT !.pc = "returned"]

CollectOnly == UNCHANGED <<bootstrap, process, runner, cache,
      uploader, streamer, environment, merged, commandPhase, agents,
      checkoutPhase>>

CollectInit ==
    /\ BootstrapUnused
    /\ process = Unused
    /\ runner = Unused
    /\ cache = Unused
    /\ uploader = Unused
    /\ streamer = Unused
    /\ environment = Unused
    /\ merged = Unused
    /\ checkoutPhase = Unused
    /\ commandPhase = Unused
    /\ agents = Unused
    /\ \E prospects \in SeqsUpTo(ProspectPatterns, MaxProspects),
          follow \in BOOLEAN, skip \in BOOLEAN :
         collector = [pc |-> "directories", i |-> 1,
                      prospects |-> prospects,
                      GlobResolveFollowSymlinks |-> follow,
                      UploadSkipSymlinks |-> skip,
                      wd |-> Getwd, seenPaths |-> {}, artifacts |-> <<>>]

\* one round of "Handle directories first"
CollectDirectory ==
    /\ collector.pc = "directories"
    /\ LET literalPath == collector.prospects[collector.i]
           absolutePath == Abs(literalPath)
       IN  collector' =
             IF \/ literalPath.parts = <<>>
                \/ absolutePath \in collector.seenPaths
                \/ ~isDir(absolutePath)
             THEN CollectNextProspect(collector)
             ELSE CollectNextProspect(
                      WalkFiles(WalkDir(absolutePath), literalPath, collector))
    /\ CollectOnly

\* one round of the loop that resolves the globs
CollectGlob ==
    /\ collector.pc = "globs"
    /\ LET globPath == collector.prospects[collector.i]
       IN  collector' =
             IF globPath.parts = <<>>
             THEN CollectNextProspect(collector)
             ELSE CollectNextProspect(
                      GlobFiles(Glob(globPath), globPath, collector))
    /\ CollectOnly

CollectNext ==
    \/ CollectDirectory
    \/ CollectGlob

CollectSpec == CollectInit /\ [][CollectNext]_vars

\* C19 (as claimed): Collect returns each file at most once, two matches
\* being the same file when their absolute paths are equal after symbolic
\* links are resolved.
C19_EachFileOnce ==
    \A j, k \in 1..Len(collector.artifacts) :
        j # k => EvalSymlinks(collector.artifacts[j].AbsolutePath)
                     # EvalSymlinks(collector.artifacts[k].AbsolutePath)

\* C20 (as claimed): whatever the order of the prospects, the Path of a file
\* matched by a relative pattern is relative to the working directory and
\* the Path of a file matched by an absolute pattern is relative to the root
\* of the file system.
C20_PathRelativeToPattern ==
    \A k \in 1..Len(collector.artifacts) :
        LET a == collector.artifacts[k]
            base == IF IsAbs(a.GlobPath) THEN FsRoot ELSE Getwd
        IN  a.Path \in {Rel(base, a.AbsolutePath),
                        Rel(base, EvalSymlinks(a.AbsolutePath))}

(***************************************************************************)
(* ArtifactUploader.upload (src/agent/artifact_uploader.go): one worker    *)
(* per artifact retrying its upload, and the goroutine that sends the      *)
(* states of the artifacts in batches.                                     *)
(***************************************************************************)
\* how many artifacts are uploaded
MaxArtifacts == 2

\* roko.WithMaxAttempts(10)
MaxUploadAttempts == 10

\* roko: the retrier gives up after the attempt that reaches the maximum
ShouldGiveUpLate(attempts) == attempts > MaxUploadAttempts
ShouldGiveUp(attempts) == attempts >= MaxUploadAttempts

\* the end of upload: an error when errors were tracked
uploadResultNil(errors) == Nil
uploadResult(errors) == IF errors # {} THEN OtherError ELSE Nil

UploadOnly ==
    UNCHANGED <<bootstrap, process, runner, cache, collector,
                streamer, environment, merged, commandPhase, agents,
      checkoutPhase>>

UploadInit ==
    /\ BootstrapUnused
    /\ process = Unused
    /\ runner = Unused
    /\ cache = Unused
    /\ collector = Unused
    /\ streamer = Unused
    /\ environment = Unused
    /\ merged = Unused
    /\ checkoutPhase = Unused
    /\ commandPhase = Unused
    /\ agents = Unused
    /\ \E n \in 0..MaxArtifacts :
         uploader =
           [pc |-> "createUploader",
            workers |-> [a \in 1..n |->
                           [pc |-> "idle", attempts |-> 0,
                            succeeded |-> FALSE, states |-> <<>>]],
            artifactStates |-> <<>>,
            stateUploader |-> [pc |-> "idle", artifactStatesUploaded |-> 0,
                               statesToUpload |-> {}],
            errors |-> {}, cancelled |-> FALSE, created |-> FALSE,
            err |-> Nil]

Artifacts == DOMAIN uploader.workers

\* a.createUploader()
UploadCreateUploader ==
    /\ uploader.pc = "createUploader"
    /\ \E err \in {Nil, OtherError} :
         uploader' = IF err # Nil
                     THEN [uploader EXCEPT !.pc = "returned", !.err = err]
                     ELSE [uploader EXCEPT !.pc = "Create"]
    /\ UploadOnly

\* batchCreator.Create(ctx), then the state uploader and the workers are
\* started
UploadCreate ==
    /\ uploader.pc = "Create"
    /\ \E err \in {Nil, OtherError} :
         uploader' =
           IF err # Nil
           THEN [uploader EXCEPT !.pc = "returned", !.err = err]
           ELSE [uploader EXCEPT
                    !.pc = "p.Wait", !.created = TRUE,
                    !.stateUploader.pc = "loop",
                    !.workers = [a \in Artifacts |->
                                   [@[a] EXCEPT !.pc = "upload"]]]
    /\ UploadOnly

\* the job's context is cancelled while the upload runs
UploadCancel ==
    /\ uploader.pc = "p.Wait"
    /\ ~uploader.cancelled
    /\ uploader' = [uploader EXCEPT !.cancelled = TRUE]
    /\ UploadOnly

\* the worker of an artifact is done: its state goes to artifactStates, a
\* failure to errors
WorkerDone(c, a, ok) ==
    LET state == IF ok THEN "finished" ELSE "error"
        old == c.artifactStates
    IN  [c EXCEPT
            !.workers[a].pc = "done",
            !.workers[a].succeeded = ok,
            !.workers[a].states = Append(@, state),
            !.artifactStates =
                [id \in DOMAIN old \cup {a} |->
                   IF id = a THEN state ELSE old[id]],
            !.errors = IF ok THEN @ ELSE @ \cup {[artifact |-> a]}]

\* one round of the retrier of a worker: after a failed attempt it sleeps,
\* or returns the error of the context when that is done; otherwise
\* uploader.Upload(ctx, artifact) is attempted
UploadWorker(a) ==
    /\ uploader.workers[a].pc = "upload"
    /\ LET w == uploader.workers[a]
           attempted == [uploader EXCEPT !.workers[a].attempts = @ + 1]
       IN  IF w.attempts > 0 /\ uploader.cancelled
           THEN uploader' = WorkerDone(uploader, a, FALSE)
           ELSE \E err \in {Nil, OtherError} :
                  uploader' =
                    IF err = Nil THEN WorkerDone(attempted, a, TRUE)
                    ELSE IF ShouldGiveUp(w.attempts + 1)
                    THEN WorkerDone(attempted, a, FALSE)
                    ELSE attempted
    /\ UploadOnly

\* the state uploader takes every state out of artifactStates
StateUploaderGrab ==
    /\ uploader.stateUploader.pc = "loop"
    /\ uploader.stateUploader.artifactStatesUploaded
           < Cardinality(Artifacts)
    /\ DOMAIN uploader.artifactStates # {}
    /\ uploader' =
         [uploader EXCEPT
            !.artifactStates = <<>>,
            !.stateUploader =
                [pc |-> "UpdateArtifacts",
                 artifactStatesUploaded |->
                     @.artifactStatesUploaded
                         + Cardinality(DOMAIN uploader.artifactStates),
                 statesToUpload |-> DOMAIN uploader.artifactStates]]
    /\ UploadOnly

\* the retrier around a.apiClient.UpdateArtifacts, from its first attempt
\* to its result: nil, or the error it gave up with
StateUploaderUpdate ==
    /\ uploader.stateUploader.pc = "UpdateArtifacts"
    /\ \E err \in {Nil, OtherError} :
         uploader' =
           [uploader EXCEPT
              !.stateUploader.pc = "loop",
              !.errors =
                  IF err = Nil THEN @
                  ELSE @ \cup {[batch |->
                                  uploader.stateUploader.statesToUpload]}]
    /\ UploadOnly

\* every state has been taken: stateUploaderWaitGroup.Done()
StateUploaderDone ==
    /\ uploader.stateUploader.pc = "loop"
    /\ uploader.stateUploader.artifactStatesUploaded
           >= Cardinality(Artifacts)
    /\ uploader' = [uploader EXCEPT !.stateUploader.pc = "done"]
    /\ UploadOnly

\* p.Wait()
UploadPoolWait ==
    /\ uploader.pc = "p.Wait"
    /\ \A a \in Artifacts : uploader.workers[a].pc = "done"
    /\ uploader' = [uploader EXCEPT !.pc = "stateUploaderWaitGroup.Wait"]
    /\ UploadOnly

\* stateUploaderWaitGroup.Wait() and the end of upload
UploadReturn ==
    /\ uploader.pc = "stateUploaderWaitGroup.Wait"
    /\ uploader.stateUploader.pc = "done"
    /\ uploader' = [uploader EXCEPT !.pc = "returned",
                                    !.err = uploadResult(uploader.errors)]
    /\ UploadOnly

UploadNext ==
    \/ UploadCreateUploader
    \/ UploadCreate
    \/ UploadCancel
    \/ \E a \in Artifacts : UploadWorker(a)
    \/ StateUploaderGrab
    \/ StateUploaderUpdate
    \/ StateUploaderDone
    \/ UploadPoolWait
    \/ UploadReturn

UploadSpec == UploadInit /\ [][UploadNext]_vars

\* C21: the upload of every artifact is attempted at least once and at most
\* 10 times and no more after a success, and when its worker is done exactly
\* one state has been recorded for it: finished if an attempt succeeded,
\* error otherwise.
C21_UploadAttempts ==
    \A a \in Artifacts :
        LET w == uploader.workers[a]
        IN  /\ w.attempts <= MaxUploadAttempts
            /\ w.succeeded => w.pc = "done"
            /\ w.pc # "done" => w.states = <<>>
            /\ w.pc = "done"
                 => /\ w.attempts >= 1
                    /\ w.states
                         = <<IF w.succeeded THEN "finished" ELSE "error">>
            /\ uploader.pc = "returned" /\ uploader.created
                 => w.pc = "done"

C21_Witness ==
    /\ uploader.pc = "returned"
    /\ \E a, b \in Artifacts :
         /\ uploader.workers[a].attempts = MaxUploadAttempts
         /\ uploader.workers[a].states = <<"error">>
         /\ uploader.workers[b].attempts > 1
         /\ uploader.workers[b].states = <<"finished">>

\* an artifact or a batch of states failed for good
Exhausted ==
    \/ \E a \in Artifacts : /\ uploader.workers[a].pc = "done"
                            /\ ~uploader.workers[a].succeeded
    \/ \E e \in uploader.errors : "batch" \in DOMAIN e

AllAttempted ==
    /\ \A a \in Artifacts : uploader.workers[a].attempts >= 1
    /\ uploader.stateUploader.pc = "done"

\* C22 (as claimed): upload returns only after every artifact has been
\* attempted and the state uploader has finished, and it returns an error
\* if and only if an artifact or a batch of states exhausted its retries.
C22_ReturnsAfterAllAttempted ==
    uploader.pc = "returned"
        => /\ AllAttempted
           /\ uploader.err # Nil <=> Exhausted

\* C22 (amended): when the uploader and the batch of artifacts have been
\* created, upload returns only after every artifact has been attempted and
\* the state uploader has finished, whatever failed, and it returns an error
\* if and only if an artifact or a batch of states failed for good (retries
\* exhausted, or the context done between two attempts); when creating the
\* uploader or the batch fails, upload returns that error and nothing is
\* attempted.
C22_ReturnsAfterAllOnceCreated ==
    uploader.pc = "returned"
        => IF uploader.created
           THEN /\ AllAttempted
                /\ uploader.err # Nil <=> Exhausted
           ELSE /\ uploader.err # Nil
                /\ \A a \in Artifacts : uploader.workers[a].attempts = 0

C22_Witness ==
    /\ uploader.pc = "returned"
    /\ uploader.err # Nil
    /\ \E a, b \in Artifacts :
         /\ ~uploader.workers[a].succeeded
         /\ uploader.workers[b].succeeded

(***************************************************************************)
(* headerTimesStreamer (src/agent/header_times_streamer.go): Scan calls on *)
(* any goroutines, Upload calls of the goroutine of Run, and Stop.         *)
(***************************************************************************)
\* how many lines are scanned
MaxScans == 3

\* Upload: the key of the index-th pending time (0-based)
payloadKeyIndex(cursor, index) == FormatInt(index)
payloadKey(cursor, index) == FormatInt(cursor + index)

\* sync.WaitGroup.Wait returns when the counter is zero
WaitGroupNoWait(counter) == TRUE
WaitGroupWait(counter) == counter = 0

StreamOnly ==
    UNCHANGED <<bootstrap, process, runner, cache, collector,
                uploader, environment, merged, commandPhase, agents,
      checkoutPhase>>

StreamInit ==
    /\ BootstrapUnused
    /\ process = Unused
    /\ runner = Unused
    /\ cache = Unused
    /\ collector = Unused
    /\ uploader = Unused
    /\ environment = Unused
    /\ merged = Unused
    /\ checkoutPhase = Unused
    /\ commandPhase = Unused
    /\ agents = Unused
    /\ \E n \in 1..MaxScans :
         \E headers \in [1..n -> BOOLEAN] :
           streamer =
             [pc |-> "streaming",
              scans |-> [s \in 1..n |->
                           [pc |-> "idle", header |-> headers[s]]],
              times |-> <<>>, scanWaitGroup |-> 0, uploadWaitGroup |-> 0,
              cursor |-> 0,
              upload |-> [pc |-> "idle", c |-> 0, length |-> 0,
                          payload |-> <<>>],
              stop |-> [pc |-> "idle", recorded |-> {}],
              passed |-> <<>>, calls |-> 0]

Scans == DOMAIN streamer.scans

\* Scan(line) up to the header test: a line that is no header is done with
ScanLine(s) ==
    /\ streamer.pc = "streaming"
    /\ streamer.scans[s].pc = "idle"
    /\ streamer' =
         IF streamer.scans[s].header
         THEN [streamer EXCEPT !.scans[s].pc = "append",
                               !.scanWaitGroup = @ + 1]
         ELSE [streamer EXCEPT !.scans[s].pc = "done"]
    /\ StreamOnly

\* h.times = append(h.times, now) under timesMutex; the time is named after
\* the Scan call that recorded it
ScanAppend(s) ==
    /\ streamer.pc = "streaming"
    /\ streamer.scans[s].pc = "append"
    /\ streamer' = [streamer EXCEPT !.scans[s].pc = "Add",
                                    !.times = Append(@, s)]
    /\ StreamOnly

\* h.uploadWaitGroup.Add(1), return true and the deferred
\* h.scanWaitGroup.Done()
ScanAdd(s) ==
    /\ streamer.pc = "streaming"
    /\ streamer.scans[s].pc = "Add"
    /\ streamer' = [streamer EXCEPT !.scans[s].pc = "done",
                                    !.uploadWaitGroup = @ + 1,
                                    !.scanWaitGroup = @ - 1]
    /\ StreamOnly

\* Upload up to "Save the cursor we're up to": the pending times, their
\* payload, the cursor; Upload returns when nothing is pending
UploadPending ==
    /\ streamer.pc = "streaming"
    /\ streamer.upload.pc = "idle"
    /\ streamer.stop.pc # "returned"
    /\ LET c == streamer.cursor
           length == Len(streamer.times)
           times == SubSeq(streamer.times, streamer.cursor + 1, length)
           payload == [k \in 1..Len(times) |->
                         [key |-> payloadKey(streamer.cursor, k - 1),
                          time |-> times[k]]]
       IN  streamer' =
             [streamer EXCEPT
                !.cursor = length,
                !.upload = [pc |-> IF Len(times) = 0 THEN "idle"
                                   ELSE "uploadCallback",
                            c |-> c, length |-> length,
                            payload |-> payload]]
    /\ StreamOnly

\* h.uploadCallback(ctx, c, length, payload)
UploadCallback ==
    /\ streamer.pc = "streaming"
    /\ streamer.upload.pc = "uploadCallback"
    /\ streamer' = [streamer EXCEPT
                      !.upload.pc = "Add",
                      !.passed = @ \o streamer.upload.payload,
                      !.calls = @ + 1]
    /\ StreamOnly

\* h.uploadWaitGroup.Add(timesToUpload * -1): a counter below zero is a
\* panic of sync.WaitGroup
UploadAdd ==
    /\ streamer.pc = "streaming"
    /\ streamer.upload.pc = "Add"
    /\ LET counter == streamer.uploadWaitGroup
                          - Len(streamer.upload.payload)
       IN  streamer' =
             IF counter < 0
             THEN [streamer EXCEPT !.pc = "panic"]
             ELSE [streamer EXCEPT !.upload.pc = "idle",
                                   !.uploadWaitGroup = counter]
    /\ StreamOnly

\* Stop is called; the times of the Scan calls that have returned by now
\* are remembered
StopCalled ==
    /\ streamer.pc = "streaming"
    /\ streamer.stop.pc = "idle"
    /\ streamer' =
         [streamer EXCEPT
            !.stop = [pc |-> "scanWaitGroup.Wait",
                      recorded |->
                        {s \in Scans : /\ streamer.scans[s].pc = "done"
                                       /\ streamer.scans[s].header}]]
    /\ StreamOnly

\* h.scanWaitGroup.Wait()
StopScanWait ==
    /\ streamer.pc = "streaming"
    /\ streamer.stop.pc = "scanWaitGroup.Wait"
    /\ WaitGroupWait(streamer.scanWaitGroup)
    /\ streamer' = [streamer EXCEPT !.stop.pc = "uploadWaitGroup.Wait"]
    /\ StreamOnly

\* h.uploadWaitGroup.Wait(), h.streaming = false and the return of Stop
StopUploadWait ==
    /\ streamer.pc = "streaming"
    /\ streamer.stop.pc = "uploadWaitGroup.Wait"
    /\ WaitGroupWait(streamer.uploadWaitGroup)
    /\ streamer' = [streamer EXCEPT !.stop.pc = "returned"]
    /\ StreamOnly

StreamNext ==
    \/ \E s \in Scans : ScanLine(s)
    \/ \E s \in Scans : ScanAppend(s)
    \/ \E s \in Scans : ScanAdd(s)
    \/ UploadPending
    \/ UploadCallback
    \/ UploadAdd
    \/ StopCalled
    \/ StopScanWait
    \/ StopUploadWait

StreamSpec == StreamInit /\ [][StreamNext]_vars

\* the times passed to the upload callback so far
PassedTimes == {streamer.passed[k].time : k \in 1..Len(streamer.passed)}

\* C23: a recorded time is passed to the upload callback at most once and
\* under the key of its 0-based position in h.times; between two calls of
\* the callback the times passed are exactly those below the cursor; the
\* cursor never exceeds the number of recorded times and never decreases.
C23_EachTimeOnceUnderItsIndex ==
    /\ [](/\ streamer.cursor <= Len(streamer.times)
          /\ \A j, k \in 1..Len(streamer.passed) :
                j # k => streamer.passed[j].time # streamer.passed[k].time
          /\ \A k \in 1..Len(streamer.passed) :
                \E i \in 1..Len(streamer.times) :
                    /\ streamer.times[i] = streamer.passed[k].time
                    /\ streamer.passed[k].key = FormatInt(i - 1)
          /\ streamer.upload.pc # "uploadCallback"
                => PassedTimes
                     = {streamer.times[i] : i \in 1..streamer.cursor})
    /\ [][streamer'.cursor >= streamer.cursor]_vars

C23_Witness ==
    /\ Len(streamer.times) >= 2
    /\ streamer.times[1] > streamer.times[2]
    /\ streamer.cursor = Len(streamer.times)
    /\ streamer.calls >= 2
    /\ streamer.upload.pc = "idle"

\* C24: when Stop returns, every time recorded by a Scan call that had
\* returned when Stop was called has been passed to the upload callback.
C24_StopDrains ==
    streamer.stop.pc = "returned"
        => streamer.stop.recorded \subseteq PassedTimes

C24_Witness ==
    /\ streamer.stop.pc = "returned"
    /\ streamer.stop.recorded # {}
    /\ Len(streamer.times) > Cardinality(streamer.stop.recorded)

(***************************************************************************)
(* shell.Environment (src/shell/environment.go).  A string is the sequence *)
(* of its characters; an Environment is its map e.env.                     *)
(***************************************************************************)
\* the longest value of a variable
MaxValueLen == 2

\* the characters values are made of: a letter, the separator, a space, a
\* double quote, a backslash and a newline
ValueChars == {"n", "=", " ", "\"", "\\", "\n"}

Letters == {"A", "B", "n"}
KeyChars == Letters \cup {"_", "1"}

\* the order of the bytes of the characters
Ord(c) ==
    CASE c = "\n" -> 10 [] c = " " -> 32 [] c = "\"" -> 34 [] c = "1" -> 49
      [] c = "=" -> 61 [] c = "A" -> 65 [] c = "B" -> 66 [] c = "\\" -> 92
      [] c = "_" -> 95 [] c = "n" -> 110

EnvKeys == {<<"A">>, <<"B">>}

EnvValues == SeqsUpTo(ValueChars, MaxValueLen) \cup {<<>>}

\* the environments with variables among keys and values among values
Environments(keys, values) ==
    UNION {[ks -> values] : ks \in SUBSET keys}

RECURSIVE TrimLeft(_, _)
TrimLeft(s, cutset) ==
    IF s # <<>> /\ Head(s) \in cutset THEN TrimLeft(Tail(s), cutset) ELSE s

RECURSIVE TrimRight(_, _)
TrimRight(s, cutset) ==
    IF s # <<>> /\ s[Len(s)] \in cutset
    THEN TrimRight(SubSeq(s, 1, Len(s) - 1), cutset)
    ELSE s

\* strings.Trim and strings.TrimSpace
Trim(s, cutset) == TrimRight(TrimLeft(s, cutset), cutset)
TrimSpace(s) == Trim(s, {" ", "\n"})

\* strings.HasPrefix and strings.HasSuffix
HasPrefix(s, prefix) == IsPrefix(prefix, s)
HasSuffix(s, suffix) ==
    /\ Len(suffix) <= Len(s)
    /\ SubSeq(s, Len(s) - Len(suffix) + 1, Len(s)) = suffix

\* strings.Replace(s, old, new, -1)
RECURSIVE Replace(_, _, _)
Replace(s, old, new) ==
    IF s = <<>> THEN <<>>
    ELSE IF HasPrefix(s, old)
    THEN new \o Replace(SubSeq(s, Len(old) + 1, Len(s)), old, new)
    ELSE <<Head(s)>> \o Replace(Tail(s), old, new)

\* strings.Join(lines, "\n")
RECURSIVE Join(_)
Join(lines) ==
    IF lines = <<>> THEN <<>>
    ELSE IF Len(lines) = 1 THEN lines[1]
    ELSE lines[1] \o <<"\n">> \o Join(Tail(lines))

\* the value Environment.Set stores: trimmed, and when it is quoted without
\* the quotes and with \" and \n expanded
SetValue(value) ==
    LET trimmed == TrimSpace(value)
    IN  IF \/ HasPrefix(trimmed, <<"\"">>) /\ HasSuffix(trimmed, <<"\"">>)
           \/ HasPrefix(trimmed, <<"'">>) /\ HasSuffix(trimmed, <<"'">>)
        THEN Replace(Replace(Trim(trimmed, {"\"", "'"}),
                             <<"\\", "\"">>, <<"\"">>),
                     <<"\\", "n">>, <<"\n">>)
        ELSE trimmed

\* Environment.Set on a platform other than Windows
EnvironmentSet(e, key, value) ==
    LET k == TrimSpace(key)
    IN  [x \in DOMAIN e \cup {k} |-> IF x = k THEN SetValue(value) ELSE e[x]]

\* Environment.Get: the zero value for a key that is absent
EnvironmentGet(e, key) == IF key \in DOMAIN e THEN e[key] ELSE <<>>

\* s sorts before t: sort.Strings compares byte by byte
RECURSIVE Less(_, _)
Less(s, t) ==
    IF t = <<>> THEN FALSE
    ELSE IF s = <<>> THEN TRUE
    ELSE IF Head(s) # Head(t) THEN Ord(Head(s)) < Ord(Head(t))
    ELSE Less(Tail(s), Tail(t))

RECURSIVE SortStrings(_)
SortStrings(S) ==
    IF S = {} THEN <<>>
    ELSE LET first == CHOOSE s \in S : \A t \in S \ {s} : Less(s, t)
         IN  <<first>> \o SortStrings(S \ {first})

\* Environment.ToSlice: KEY=VALUE of every variable, sorted
ToSlice(e) == SortStrings({k \o <<"=">> \o e[k] : k \in DOMAIN e})

\* EnvironmentVariableLineRegex.FindStringSubmatch(l): the key is what
\* precedes the first "=", a letter followed by letters, digits and
\* underscores; the value is what follows, one character or more, none of
\* them a newline
FindStringSubmatch(l) ==
    LET eqs == {i \in 1..Len(l) : l[i] = "="}
    IN  IF eqs = {} THEN <<>>
        ELSE LET i == CHOOSE x \in eqs : \A y \in eqs : x <= y
                 key == SubSeq(l, 1, i - 1)
                 value == SubSeq(l, i + 1, Len(l))
             IN  IF /\ key # <<>>
                    /\ key[1] \in Letters
                    /\ \A j \in 1..Len(key) : key[j] \in KeyChars
                    /\ value # <<>>
                    /\ \A j \in 1..Len(value) : value[j] # "\n"
                 THEN <<l, key, value>>
                 ELSE <<>>

\* the loop of EnvironmentFromSlice over the lines
RECURSIVE FromSliceLoop(_, _)
FromSliceLoop(s, st) ==
    IF s = <<>> THEN st
    ELSE LET l == Head(s)
             matches == FindStringSubmatch(l)
             flushed ==
                 IF st.currentKeyName # <<>> /\ st.currentValueSlice # <<>>
                 THEN [st EXCEPT
                         !.env = EnvironmentSet(st.env, st.currentKeyName,
                                                Join(st.currentValueSlice)),
                         !.currentValueSlice = <<>>]
                 ELSE st
         IN  FromSliceLoop(Tail(s),
                 IF Len(matches) = 3
                 THEN [flushed EXCEPT
                         !.currentKeyName = matches[2],
                         !.currentValueSlice = Append(@, matches[3])]
                 ELSE IF st.currentKeyName # <<>>
                 THEN [st EXCEPT !.currentValueSlice = Append(@, l)]
                 ELSE st)

EnvironmentFromSlice(s) ==
    LET st == FromSliceLoop(s, [env |-> <<>>, currentKeyName |-> <<>>,
                                currentValueSlice |-> <<>>])
    IN  IF st.currentKeyName # <<>> /\ st.currentValueSlice # <<>>
        THEN EnvironmentSet(st.env, st.currentKeyName,
                            Join(st.currentValueSlice))
        ELSE st.env

\* the variables of e in some order, as a range over a map gives them
Orders(S) == {o \in [1..Cardinality(S) -> S] : Range(o) = S}

RECURSIVE DiffLoop(_, _, _, _)
DiffLoop(keys, e, other, diff) ==
    IF keys = <<>> THEN diff
    ELSE DiffLoop(Tail(keys), e, other,
             IF EnvironmentGet(other, Head(keys)) # e[Head(keys)]
             THEN EnvironmentSet(diff, Head(keys), e[Head(keys)])
             ELSE diff)

\* Environment.Diff
EnvironmentDiff(e, other, order) == DiffLoop(order, e, other, <<>>)

\* the values of the environments that are compared
DiffValues == {<<>>, <<"n">>, <<"=">>, <<"n", " ", "n">>}

EnvOnly ==
    UNCHANGED <<bootstrap, process, runner, cache, collector,
                uploader, streamer, merged, commandPhase, agents,
      checkoutPhase>>

EnvInit ==
    /\ BootstrapUnused
    /\ process = Unused
    /\ runner = Unused
    /\ cache = Unused
    /\ collector = Unused
    /\ uploader = Unused
    /\ streamer = Unused
    /\ merged = Unused
    /\ checkoutPhase = Unused
    /\ commandPhase = Unused
    /\ agents = Unused
    /\ \/ \E e \in Environments(EnvKeys, EnvValues) :
            environment = [pc |-> "EnvironmentFromSlice", e |-> e]
       \/ \E post \in Environments(EnvKeys, DiffValues),
             pre \in Environments(EnvKeys, DiffValues) :
            environment = [pc |-> "Diff", e |-> post, other |-> pre]

\* EnvironmentFromSlice(e.ToSlice())
EnvRoundTrip ==
    /\ environment.pc = "EnvironmentFromSlice"
    /\ environment' =
         [pc |-> "returned", fn |-> "EnvironmentFromSlice",
          e |-> environment.e,
          result |-> EnvironmentFromSlice(ToSlice(environment.e))]
    /\ EnvOnly

\* e.Diff(other)
EnvDiff ==
    /\ environment.pc = "Diff"
    /\ \E order \in Orders(DOMAIN environment.e) :
         environment' =
           [pc |-> "returned", fn |-> "Diff",
            e |-> environment.e, other |-> environment.other,
            result |-> EnvironmentDiff(environment.e, environment.other,
                                       order)]
    /\ EnvOnly

EnvNext ==
    \/ EnvRoundTrip
    \/ EnvDiff

EnvSpec == EnvInit /\ [][EnvNext]_vars

\* C25 (as claimed): on a platform other than Windows,
\* EnvironmentFromSlice(e.ToSlice()) has exactly the variables of e, each
\* with the value it has in e.
C25_SliceRoundTrip ==
    environment.pc = "returned" /\ environment.fn = "EnvironmentFromSlice"
        => environment.result = environment.e

\* C26 (as claimed): post.Diff(pre) holds exactly the variables of post that
\* are absent from pre or have another value in pre, each with its value
\* in post.
C26_DiffAddedOrChanged ==
    environment.pc = "returned" /\ environment.fn = "Diff"
        => LET post == environment.e
               pre == environment.other
           IN  environment.result
                 = [k \in {x \in DOMAIN post :
                             x \notin DOMAIN pre \/ pre[x] # post[x]}
                      |-> post[k]]

(***************************************************************************)
(* MergePlugins (src/agent/plugin.go).                                     *)
(***************************************************************************)
\* how many plugins the job and the agent declare at most
MaxMerged == 2

Locations == {"github.com/o/a", "github.com/o/b", "github.com/o/c"}

\* the plugin lists of one side: a plugin is its Location and who declared
\* it
PluginLists(owner) ==
    {[k \in 1..Len(ls) |-> [Location |-> ls[k], owner |-> owner]] :
        ls \in SeqsUpTo(Locations, MaxMerged) \cup {<<>>}}

\* pluginMap[plugin.Location] = struct{}{} : pluginMap is declared and never
\* made, and an assignment to an entry of a nil map is a run-time panic
RECURSIVE MergeAgentLoop(_, _)
MergeAgentLoop(agentPlugins, st) ==
    IF agentPlugins = <<>> \/ st.panic THEN st
    ELSE MergeAgentLoop(Tail(agentPlugins),
             IF st.pluginMap = "nil"
             THEN [st EXCEPT !.panic = TRUE]
             ELSE [st EXCEPT
                     !.pluginMap = @ \cup {Head(agentPlugins).Location},
                     !.result = Append(@, Head(agentPlugins))])

\* the lookup pluginMap[plugin.Location]: nothing exists in a nil map
RECURSIVE MergeJobLoop(_, _)
MergeJobLoop(jobPlugins, st) ==
    IF jobPlugins = <<>> \/ st.panic THEN st
    ELSE MergeJobLoop(Tail(jobPlugins),
             IF /\ st.pluginMap # "nil"
                /\ Head(jobPlugins).Location \in st.pluginMap
             THEN st
             ELSE [st EXCEPT !.result = Append(@, Head(jobPlugins))])

MergePlugins(jobPlugins, agentPlugins) ==
    MergeJobLoop(jobPlugins,
        MergeAgentLoop(agentPlugins,
            [result |-> <<>>, pluginMap |-> "nil", panic |-> FALSE]))

MergeOnly ==
    UNCHANGED <<bootstrap, process, runner, cache, collector,
                uploader, streamer, environment, commandPhase, agents,
      checkoutPhase>>

MergeInit ==
    /\ BootstrapUnused
    /\ process = Unused
    /\ runner = Unused
    /\ cache = Unused
    /\ collector = Unused
    /\ uploader = Unused
    /\ streamer = Unused
    /\ environment = Unused
    /\ checkoutPhase = Unused
    /\ commandPhase = Unused
    /\ agents = Unused
    /\ \E jobPlugins \in PluginLists("job"),
          agentPlugins \in PluginLists("agent") :
         merged = [pc |-> "MergePlugins", jobPlugins |-> jobPlugins,
                   agentPlugins |-> agentPlugins, result |-> <<>>]

MergePluginsCall ==
    /\ merged.pc = "MergePlugins"
    /\ LET st == MergePlugins(merged.jobPlugins, merged.agentPlugins)
       IN  merged' = [merged EXCEPT
                        !.pc = IF st.panic THEN "panic" ELSE "returned",
                        !.result = IF st.panic THEN <<>> ELSE st.result]
    /\ MergeOnly

MergeNext == MergePluginsCall

MergeSpec == MergeInit /\ [][MergeNext]_vars

\* C27 (as claimed): for all inputs MergePlugins returns, without faulting,
\* every agent plugin in order followed by each job plugin whose Location is
\* the Location of no agent plugin.
C27_AgentPluginsThenNewJobPlugins ==
    merged.pc # "MergePlugins"
        => /\ merged.pc = "returned"
           /\ merged.result
                = merged.agentPlugins
                    \o SelectSeq(merged.jobPlugins,
                         LAMBDA p :
                           \A k \in 1..Len(merged.agentPlugins) :
                             merged.agentPlugins[k].Location # p.Location)

(***************************************************************************)
(* The command of a job: what Bootstrap.Start runs before the command, and *)
(* DefaultCommandPhase (src/bootstrap/git_test.go) deciding whether the    *)
(* command is a script of the checkout.  Strings are sequences of          *)
(* characters.                                                             *)
(***************************************************************************)
\* the exit statuses of the build script besides 0
MaxScriptExit == 1

\* the files and directories that exist (os.Stat succeeds)
FsPaths ==
    { <<"/">>, <<"/", "w">>, <<"/", "w", "/", "t">>, <<"/", "w", "/", "d">>,
      <<"/", "w", "/", "d", "/", "t">>, <<"/", "x">>, <<"/", "w", "2">>,
      <<"/", "w", "2", "/", "t">> }

\* b.shell.Getwd(): the checkout directory
CheckoutDirs == { <<"/", "w">>, <<"/", "w", "/", "d">> }

\* b.Command
Commands ==
    { <<>>, <<"t">>, <<"d", "/", "t">>, <<".", ".", "/", "x">>,
      <<".", ".", "/", "w", "2", "/", "t">>, <<"/", "x">>, <<"e">>, <<"d">>,
      <<"t", "\n">>, <<".", "/", "t">>, <<"d", "/", ".", ".", "/", "t">>,
      <<"\n">>, <<".", ".">>, <<".", ".", "/", "t">> }

\* what runs a child before the command, in the order of Start
StagesBeforeCommand ==
    << "environment hook", "plugin clone", "git checkout",
       "pre-command hook" >>

\* strings.Split(s, "/")
RECURSIVE SplitPath(_, _)
SplitPath(s, current) ==
    IF s = <<>> THEN <<current>>
    ELSE IF Head(s) = "/" THEN <<current>> \o SplitPath(Tail(s), <<>>)
    ELSE SplitPath(Tail(s), Append(current, Head(s)))

\* filepath.Clean on the elements of a rooted path: empty elements and "."
\* are dropped, ".." drops the element before it
RECURSIVE CleanElements(_, _)
CleanElements(elements, done) ==
    IF elements = <<>> THEN done
    ELSE LET e == Head(elements)
         IN  CleanElements(Tail(elements),
                 IF e = <<>> \/ e = <<".">> THEN done
                 ELSE IF e = <<".", ".">>
                 THEN IF done = <<>> THEN done
                      ELSE SubSeq(done, 1, Len(done) - 1)
                 ELSE Append(done, e))

RECURSIVE RootedPath(_)
RootedPath(elements) ==
    IF elements = <<>> THEN <<>>
    ELSE <<"/">> \o Head(elements) \o RootedPath(Tail(elements))

\* filepath.Abs(filepath.Join(dir, name)) for an absolute dir
AbsJoin(dir, name) ==
    LET elements == CleanElements(SplitPath(dir \o <<"/">> \o name, <<>>),
                                  <<>>)
    IN  IF elements = <<>> THEN <<"/">> ELSE RootedPath(elements)

\* fileExists(filename): os.Stat succeeds
pathExists(filename) == filename \in FsPaths

\* a test of the checkout that forgets the separator
InCheckoutNoSeparator(pathToCommand, wd) == HasPrefix(pathToCommand, wd)

\* strings.HasPrefix(pathToCommand, b.shell.Getwd()+string(os.PathSeparator))
InCheckout(pathToCommand, wd) == HasPrefix(pathToCommand, wd \o <<"/">>)

\* DefaultCommandPhase up to the build script: the error it returns, or
\* the script it is going to run and whether it has to write it
DefaultCommandDecision(Command, CommandEval, wd) ==
    LET scriptFileName == Replace(Command, <<"\n">>, <<>>)
        pathToCommand == AbsJoin(wd, scriptFileName)
        commandIsScript == pathExists(pathToCommand)
    IN  IF Command = <<>> THEN [err |-> "No command has been defined"]
        ELSE IF ~commandIsScript /\ ~CommandEval
        THEN [err |-> "not allowed to evaluate console commands"]
        ELSE IF /\ commandIsScript
                /\ ~CommandEval
                /\ ~InCheckout(pathToCommand, wd)
        THEN [err |-> "only allowed to run scripts within your repository"]
        ELSE IF commandIsScript
        THEN [err |-> "", write |-> FALSE, buildScriptPath |-> pathToCommand]
        ELSE [err |-> "", write |-> TRUE,
              buildScriptPath |-> AbsJoin(wd, <<"buildkite-script">>)]

CommandOnly ==
    UNCHANGED <<bootstrap, process, runner, cache, collector,
                uploader, streamer, environment, merged, agents,
      checkoutPhase>>

CommandInit ==
    /\ BootstrapUnused
    /\ process = Unused
    /\ runner = Unused
    /\ cache = Unused
    /\ collector = Unused
    /\ uploader = Unused
    /\ streamer = Unused
    /\ environment = Unused
    /\ merged = Unused
    /\ agents = Unused
    /\ checkoutPhase = Unused
    /\ \E Command \in Commands, CommandEval \in BOOLEAN,
          wd \in CheckoutDirs, commandHook \in BOOLEAN :
         commandPhase =
           [pc |-> "before", stage |-> 1,
            Command |-> Command, CommandEval |-> CommandEval, wd |-> wd,
            commandHook |-> commandHook,
            children |-> <<>>, written |-> FALSE, executed |-> <<>>,
            default |-> "", err |-> ""]

\* one of the things Start does before the command: a hook that exists, a
\* plugin that is cloned, the checkout run their child; its failure ends the
\* job
CommandStage ==
    /\ commandPhase.pc = "before"
    /\ \E child \in BOOLEAN, ok \in BOOLEAN :
         LET c == IF child
                  THEN [commandPhase EXCEPT
                          !.children =
                              Append(@, StagesBeforeCommand[
                                            commandPhase.stage])]
                  ELSE commandPhase
         IN  commandPhase' =
               IF child /\ ~ok
               THEN [c EXCEPT !.pc = "exited", !.err = "child failed"]
               ELSE IF c.stage < Len(StagesBeforeCommand)
               THEN [c EXCEPT !.stage = @ + 1]
               ELSE [c EXCEPT !.pc = "command"]
    /\ CommandOnly

\* CommandPhase: a command hook replaces the default command
CommandHook ==
    /\ commandPhase.pc = "command"
    /\ commandPhase.commandHook
    /\ commandPhase' = [commandPhase EXCEPT
                          !.pc = "exited",
                          !.children = Append(@, "command hook")]
    /\ CommandOnly

\* DefaultCommandPhase up to the build script
DefaultCommandChecks ==
    /\ commandPhase.pc = "command"
    /\ ~commandPhase.commandHook
    /\ LET d == DefaultCommandDecision(commandPhase.Command,
                                       commandPhase.CommandEval,
                                       commandPhase.wd)
       IN  commandPhase' =
             IF d.err # ""
             THEN [commandPhase EXCEPT !.pc = "exited", !.err = d.err,
                                       !.default = "returned"]
             ELSE IF d.write
             THEN [commandPhase EXCEPT !.pc = "WriteFile"]
             ELSE [commandPhase EXCEPT !.pc = "executeScript"]
    /\ CommandOnly

\* ioutil.WriteFile(buildScriptPath, buildScriptContents, 0644)
DefaultCommandWriteFile ==
    /\ commandPhase.pc = "WriteFile"
    /\ \E ok \in BOOLEAN :
         commandPhase' =
           IF ok
           THEN [commandPhase EXCEPT !.pc = "executeScript",
                                     !.written = TRUE]
           ELSE [commandPhase EXCEPT !.pc = "exited",
                                     !.err = "Failed to write",
                                     !.default = "returned"]
    /\ CommandOnly

\* b.executeScript(buildScriptPath)
DefaultCommandExecuteScript ==
    /\ commandPhase.pc = "executeScript"
    /\ \E status \in 0..MaxScriptExit :
         LET d == DefaultCommandDecision(commandPhase.Command,
                                         commandPhase.CommandEval,
                                         commandPhase.wd)
         IN  commandPhase' =
               [commandPhase EXCEPT
                  !.pc = "exited",
                  !.executed = d.buildScriptPath,
                  !.children = Append(@, "build script"),
                  !.err = IF status = 0 THEN "" ELSE "exit status",
                  !.default = "returned"]
    /\ CommandOnly

CommandNext ==
    \/ CommandStage
    \/ CommandHook
    \/ DefaultCommandChecks
    \/ DefaultCommandWriteFile
    \/ DefaultCommandExecuteScript

CommandSpec == CommandInit /\ [][CommandNext]_vars

\* the file the command names, element by element from the checkout
\* directory, and whether it lies below the checkout directory
NamedElements ==
    CleanElements(
        SplitPath(commandPhase.wd, <<>>)
            \o SplitPath(SelectSeq(commandPhase.Command,
                                   LAMBDA c : c # "\n"), <<>>),
        <<>>)

NamesFileInCheckout ==
    LET checkout == CleanElements(SplitPath(commandPhase.wd, <<>>), <<>>)
    IN  /\ commandPhase.Command # <<>>
        /\ RootedPath(NamedElements) \in FsPaths
        /\ Len(NamedElements) > Len(checkout)
        /\ SubSeq(NamedElements, 1, Len(checkout)) = checkout

\* C28: with command evaluation disabled DefaultCommandPhase runs a child
\* only for a command that names an existing file below the checkout
\* directory, and then this file; in every other case it returns an error,
\* and in no case it writes a build script.
C28_NoEvalOnlyCheckoutScripts ==
    ~commandPhase.CommandEval
        => /\ ~commandPhase.written
           /\ commandPhase.executed # <<>>
                => /\ NamesFileInCheckout
                   /\ commandPhase.executed = RootedPath(NamedElements)
           /\ commandPhase.default = "returned" /\ ~NamesFileInCheckout
                => /\ commandPhase.err # ""
                   /\ commandPhase.executed = <<>>
                   /\ "build script" \notin Range(commandPhase.children)

C28_Witness ==
    /\ ~commandPhase.CommandEval
    /\ commandPhase.default = "returned"
    /\ commandPhase.executed = <<"/", "w", "/", "t">>
    /\ commandPhase.Command = <<"d", "/", ".", ".", "/", "t">>

\* C29 (as claimed): a job whose command is empty is rejected with a
\* configuration error before any child process has been run for it.
C29_EmptyCommandRejectedFirst ==
    commandPhase.Command = <<>>
        => /\ commandPhase.children = <<>>
           /\ commandPhase.pc = "exited"
                => commandPhase.err = "No command has been defined"

(***************************************************************************)
(* Two agents on one host in PluginPhase (src/bootstrap/git_test.go) for   *)
(* the same plugin, which is not in the cache.  The lock is shell's        *)
(* cross-process file lock with a timeout, as the specification and        *)
(* TestLockFileRetriesAndTimesOut describe it.                             *)
(***************************************************************************)
HostAgents == {"agent1", "agent2"}

\* an attempt to take the lock succeeds when nobody holds it
TryLock(holders, a) == holders = {}

\* shell.LockFileWithTimeout gives up with context.DeadlineExceeded when
\* the lock has been held by another process until the timeout
LockTimesOut(holders, a) == holders \ {a} # {}

LockOnly ==
    UNCHANGED <<bootstrap, process, runner, cache, collector,
                uploader, streamer, environment, merged, commandPhase,
                checkoutPhase>>

LockInit ==
    /\ BootstrapUnused
    /\ process = Unused
    /\ runner = Unused
    /\ cache = Unused
    /\ collector = Unused
    /\ uploader = Unused
    /\ streamer = Unused
    /\ environment = Unused
    /\ merged = Unused
    /\ checkoutPhase = Unused
    /\ commandPhase = Unused
    /\ \E version \in PluginVersions :
         agents =
           [pc |-> [a \in HostAgents |-> "fileExists"],
            err |-> [a \in HostAgents |-> ""],
            clones |-> [a \in HostAgents |-> 0],
            locked |-> <<>>,
            unlocked |-> {},
            holders |-> {},
            Version |-> version,
            directory |-> FALSE,
            pluginGitDirectory |-> FALSE]

\* an agent's PluginPhase returns err
AgentReturn(a, err) == [agents EXCEPT !.pc[a] = "returned", !.err[a] = err]

\* !fileExists(pluginGitDirectory): the plugin is found, or on to MkdirAll
AgentFileExists(a) ==
    /\ agents.pc[a] = "fileExists"
    /\ agents' = IF agents.pluginGitDirectory
                 THEN AgentReturn(a, "")
                 ELSE [agents EXCEPT !.pc[a] = "MkdirAll"]
    /\ LockOnly

\* os.MkdirAll(directory, 0777)
AgentMkdirAll(a) ==
    /\ agents.pc[a] = "MkdirAll"
    /\ \E ok \in BOOLEAN :
         agents' = IF ok
                   THEN [agents EXCEPT !.pc[a] = "LockFileWithTimeout",
                                       !.directory = TRUE]
                   ELSE AgentReturn(a, "MkdirAll")
    /\ LockOnly

\* shell.LockFileWithTimeout returns the lock
AgentLock(a) ==
    /\ agents.pc[a] = "LockFileWithTimeout"
    /\ TryLock(agents.holders, a)
    /\ agents' = [agents EXCEPT !.pc[a] = "locked",
                                !.holders = @ \cup {a},
                                !.locked = Append(@, a)]
    /\ LockOnly

\* shell.LockFileWithTimeout returns context.DeadlineExceeded and
\* PluginPhase returns it
AgentLockTimeout(a) ==
    /\ agents.pc[a] = "LockFileWithTimeout"
    /\ LockTimesOut(agents.holders, a)
    /\ agents' = AgentReturn(a, "DeadlineExceeded")
    /\ LockOnly

\* the directory is not looked at again once the lock is held
checkedOutNever(pluginGitDirectory) == FALSE

\* fileExists(pluginGitDirectory) once the lock is held
checkedOutMeanwhile(pluginGitDirectory) == pluginGitDirectory

\* with the lock: another process checked the plugin out meanwhile (Unlock,
\* continue), or on to the checkout
AgentLocked(a) ==
    /\ agents.pc[a] = "locked"
    /\ agents' =
         IF checkedOutMeanwhile(agents.pluginGitDirectory)
         THEN [AgentReturn(a, "") EXCEPT !.holders = @ \ {a}]
         ELSE [agents EXCEPT !.pc[a] = "Repository"]
    /\ LockOnly

\* p.Repository(): an error is returned with the lock held
AgentRepository(a) ==
    /\ agents.pc[a] = "Repository"
    /\ \E ok \in BOOLEAN :
         agents' = IF ok THEN [agents EXCEPT !.pc[a] = "Chdir"]
                   ELSE AgentReturn(a, "Repository")
    /\ LockOnly

\* b.shell.Chdir(directory)
AgentChdir(a) ==
    /\ agents.pc[a] = "Chdir"
    /\ agents' = IF agents.directory THEN [agents EXCEPT !.pc[a] = "clone"]
                 ELSE AgentReturn(a, "Chdir")
    /\ LockOnly

\* git clone -v -- repo .
AgentClone(a) ==
    /\ agents.pc[a] = "clone"
    /\ \E ok \in BOOLEAN :
         agents' =
           IF ok
           THEN [agents EXCEPT !.pc[a] = IF agents.Version # ""
                                         THEN "versionClone" ELSE "ChdirBack",
                               !.clones[a] = @ + 1,
                               !.pluginGitDirectory = TRUE]
           ELSE [AgentReturn(a, "git clone") EXCEPT !.clones[a] = @ + 1]
    /\ LockOnly

\* p.Version is set: git clone -v -- repo . once more
AgentVersionClone(a) ==
    /\ agents.pc[a] = "versionClone"
    /\ \E ok \in BOOLEAN :
         agents' =
           IF ok
           THEN [agents EXCEPT !.pc[a] = "checkout", !.clones[a] = @ + 1]
           ELSE [AgentReturn(a, "git clone") EXCEPT !.clones[a] = @ + 1]
    /\ LockOnly

\* git checkout -f Version
AgentVersionCheckout(a) ==
    /\ agents.pc[a] = "checkout"
    /\ \E ok \in BOOLEAN :
         agents' = IF ok THEN [agents EXCEPT !.pc[a] = "ChdirBack"]
                   ELSE AgentReturn(a, "git checkout")
    /\ LockOnly

\* b.shell.Chdir(previousWd) and pluginCheckoutHook.Unlock()
AgentUnlock(a) ==
    /\ agents.pc[a] = "ChdirBack"
    /\ \E ok \in BOOLEAN :
         agents' =
           IF ok
           THEN [AgentReturn(a, "") EXCEPT !.holders = @ \ {a},
                                           !.unlocked = @ \cup {a}]
           ELSE AgentReturn(a, "Chdir")
    /\ LockOnly

\* the bootstrap of an agent that returned an error with the lock held
\* exits, which ends its hold of the lock
AgentExit(a) ==
    /\ agents.pc[a] = "returned"
    /\ a \in agents.holders
    /\ agents' = [agents EXCEPT !.pc[a] = "exited", !.holders = @ \ {a}]
    /\ LockOnly

LockNext ==
    \E a \in HostAgents :
        \/ AgentFileExists(a)
        \/ AgentMkdirAll(a)
        \/ AgentLock(a)
        \/ AgentLockTimeout(a)
        \/ AgentLocked(a)
        \/ AgentRepository(a)
        \/ AgentChdir(a)
        \/ AgentClone(a)
        \/ AgentVersionClone(a)
        \/ AgentVersionCheckout(a)
        \/ AgentUnlock(a)
        \/ AgentExit(a)

LockSpec == LockInit /\ [][LockNext]_vars

\* between the lock and its release
InCloneSection(a) ==
    agents.pc[a] \in {"locked", "Repository", "Chdir", "clone",
                      "versionClone", "checkout", "ChdirBack"}

\* C30: at most one agent holds the lock of the plugin; an attempt on a held
\* lock never succeeds and can only fail with DeadlineExceeded; the two are
\* never in the clone section together; the agent that gets the lock after
\* the other one checked the plugin out issues no git clone.
C30_OneAgentInCloneSection ==
    /\ Cardinality(agents.holders) <= 1
    /\ \A a \in HostAgents : InCloneSection(a) => a \in agents.holders
    /\ \A a, b \in HostAgents :
         a # b => ~(InCloneSection(a) /\ InCloneSection(b))
    /\ \A a \in HostAgents :
         agents.err[a] = "DeadlineExceeded"
            => /\ agents.clones[a] = 0
               /\ \A i \in 1..Len(agents.locked) : agents.locked[i] # a
    /\ Len(agents.locked) = 2 /\ agents.locked[1] \in agents.unlocked
         => agents.clones[agents.locked[2]] = 0

\* the second agent took the lock after the first one's checkout and
\* returned without an error
C30_Witness ==
    /\ Len(agents.locked) = 2
    /\ agents.locked[1] \in agents.unlocked
    /\ agents.clones[agents.locked[1]] > 0
    /\ agents.pc[agents.locked[2]] = "returned"
    /\ agents.err[agents.locked[2]] = ""

\* the agent found the plugin at the first fileExists, without the lock
FoundWithoutLock(a) ==
    /\ agents.pc[a] = "returned"
    /\ agents.err[a] = ""
    /\ \A i \in 1..Len(agents.locked) : agents.locked[i] # a

\* the agent's checkout of the plugin is under way
CheckoutInProgress(b) ==
    agents.pc[b] \in {"clone", "versionClone", "checkout"}

\* the agent's checkout of the plugin failed after it had begun
CheckoutFailed(b) ==
    /\ agents.clones[b] > 0
    /\ agents.err[b] \in {"git clone", "git checkout"}

\* C31: no agent goes on with the plugin as found, without the lock, while
\* the other agent's git clone or git checkout of it is under way or after
\* it failed part-way.
C31_FoundOnlyWhenCheckedOut ==
    \A a, b \in HostAgents :
        a # b /\ FoundWithoutLock(a)
            => ~CheckoutInProgress(b) /\ ~CheckoutFailed(b)

(***************************************************************************)
(* The map artifactStates of ArtifactUploader.upload and its mutex         *)
(* (src/agent/artifact_uploader.go): the workers write the state of their  *)
(* artifact, the state uploader drains the map and sends what it took.     *)
(***************************************************************************)
NoTask == [task |-> "none", id |-> 0]
StateUploaderTask == [task |-> "stateUploader", id |-> 0]
WorkerTask(a) == [task |-> "worker", id |-> a]

\* the states stay in the map after they were copied
drainKept(artifactStates) == artifactStates

\* for id, state := range artifactStates { ...; delete(artifactStates, id) }
drain(artifactStates) == <<>>

StatesInit ==
    /\ BootstrapUnused
    /\ process = Unused
    /\ runner = Unused
    /\ cache = Unused
    /\ collector = Unused
    /\ streamer = Unused
    /\ environment = Unused
    /\ merged = Unused
    /\ checkoutPhase = Unused
    /\ commandPhase = Unused
    /\ agents = Unused
    /\ \E n \in 0..MaxArtifacts :
         uploader =
           [pc |-> "p.Wait",
            workers |-> [a \in 1..n |-> [pc |-> "upload", state |-> ""]],
            artifactStates |-> <<>>,
            artifactStatesMutex |-> NoTask,
            stateUploader |-> [pc |-> "loop", artifactStatesUploaded |-> 0,
                               statesToUpload |-> <<>>],
            batches |-> <<>>,
            errors |-> 0]

\* the retrier around uploader.Upload, to its result, and the state chosen
\* from it
StatesWorkerUpload(a) ==
    /\ uploader.workers[a].pc = "upload"
    /\ \E state \in {"finished", "error"} :
         uploader' = [uploader EXCEPT
                        !.workers[a] = [pc |-> "Lock", state |-> state],
                        !.errors = IF state = "error" THEN 1 ELSE @]
    /\ UploadOnly

\* artifactStatesMutex.Lock() of a worker
StatesWorkerLock(a) ==
    /\ uploader.workers[a].pc = "Lock"
    /\ uploader.artifactStatesMutex = NoTask
    /\ uploader' = [uploader EXCEPT !.workers[a].pc = "locked",
                                    !.artifactStatesMutex = WorkerTask(a)]
    /\ UploadOnly

\* artifactStates[artifact.ID] = state
StatesWorkerSet(a) ==
    /\ uploader.workers[a].pc = "locked"
    /\ LET old == uploader.artifactStates
       IN  uploader' =
             [uploader EXCEPT
                !.workers[a].pc = "Unlock",
                !.artifactStates =
                    [id \in DOMAIN old \cup {a} |->
                       IF id = a THEN uploader.workers[a].state
                       ELSE old[id]]]
    /\ UploadOnly

\* artifactStatesMutex.Unlock() of a worker, which is done
StatesWorkerUnlock(a) ==
    /\ uploader.workers[a].pc = "Unlock"
    /\ uploader' = [uploader EXCEPT !.workers[a].pc = "done",
                                    !.artifactStatesMutex = NoTask]
    /\ UploadOnly

\* for artifactStatesUploaded < len(artifacts), and
\* stateUploaderWaitGroup.Done() after the loop
StatesLoop ==
    /\ uploader.stateUploader.pc = "loop"
    /\ uploader' =
         [uploader EXCEPT
            !.stateUploader.pc =
                IF uploader.stateUploader.artifactStatesUploaded
                       < Cardinality(DOMAIN uploader.workers)
                THEN "Lock" ELSE "done"]
    /\ UploadOnly

\* artifactStatesMutex.Lock() of the state uploader
StatesLock ==
    /\ uploader.stateUploader.pc = "Lock"
    /\ uploader.artifactStatesMutex = NoTask
    /\ uploader' = [uploader EXCEPT
                      !.stateUploader.pc = "locked",
                      !.stateUploader.statesToUpload = <<>>,
                      !.artifactStatesMutex = StateUploaderTask]
    /\ UploadOnly

\* the states are copied to statesToUpload and deleted from the map
StatesDrain ==
    /\ uploader.stateUploader.pc = "locked"
    /\ uploader' = [uploader EXCEPT
                      !.stateUploader.pc = "Unlock",
                      !.stateUploader.statesToUpload =
                          uploader.artifactStates,
                      !.artifactStates = drain(@)]
    /\ UploadOnly

\* artifactStatesMutex.Unlock() of the state uploader, then
\* len(statesToUpload) > 0: the states are counted and the retrier is
\* started, or the sleep of the empty round
StatesUnlock ==
    /\ uploader.stateUploader.pc = "Unlock"
    /\ LET statesToUpload == uploader.stateUploader.statesToUpload
           n == Cardinality(DOMAIN statesToUpload)
       IN  uploader' =
             IF n > 0
             THEN [uploader EXCEPT
                     !.artifactStatesMutex = NoTask,
                     !.stateUploader.pc = "UpdateArtifacts",
                     !.stateUploader.artifactStatesUploaded = @ + n,
                     !.batches = Append(@, statesToUpload)]
             ELSE [uploader EXCEPT
                     !.artifactStatesMutex = NoTask,
                     !.stateUploader.pc = "loop"]
    /\ UploadOnly

\* the retrier around a.apiClient.UpdateArtifacts(..., statesToUpload), to
\* its result, and the sleep of the round
StatesUpdateArtifacts ==
    /\ uploader.stateUploader.pc = "UpdateArtifacts"
    /\ \E err \in {Nil, OtherError} :
         uploader' = [uploader EXCEPT
                        !.stateUploader.pc = "loop",
                        !.errors = IF err # Nil THEN 1 ELSE @]
    /\ UploadOnly

\* p.Wait(), stateUploaderWaitGroup.Wait() and the end of upload
StatesReturn ==
    /\ uploader.pc = "p.Wait"
    /\ \A a \in DOMAIN uploader.workers : uploader.workers[a].pc = "done"
    /\ uploader.stateUploader.pc = "done"
    /\ uploader' = [uploader EXCEPT !.pc = "returned"]
    /\ UploadOnly

StatesNext ==
    \/ \E a \in DOMAIN uploader.workers : StatesWorkerUpload(a)
    \/ \E a \in DOMAIN uploader.workers : StatesWorkerLock(a)
    \/ \E a \in DOMAIN uploader.workers : StatesWorkerSet(a)
    \/ \E a \in DOMAIN uploader.workers : StatesWorkerUnlock(a)
    \/ StatesLoop
    \/ StatesLock
    \/ StatesDrain
    \/ StatesUnlock
    \/ StatesUpdateArtifacts
    \/ StatesReturn

StatesSpec == StatesInit /\ [][StatesNext]_vars

\* the batches handed to UpdateArtifacts that hold the artifact
SentIn(a) ==
    {i \in 1..Len(uploader.batches) : a \in DOMAIN uploader.batches[i]}

\* C32: the state of an artifact is in at most one batch handed to
\* UpdateArtifacts, there with the state its worker ended with, and in
\* exactly one when upload returns; the state uploader does not hold the
\* mutex of the map while its request is in flight.
C32_EachStateInOneBatch ==
    /\ \A a \in DOMAIN uploader.workers :
         /\ Cardinality(SentIn(a)) <= 1
         /\ \A i \in SentIn(a) :
              /\ uploader.workers[a].pc \in {"Unlock", "done"}
              /\ uploader.batches[i][a] = uploader.workers[a].state
         /\ uploader.pc = "returned" => Cardinality(SentIn(a)) = 1
    /\ uploader.stateUploader.pc = "UpdateArtifacts"
         => uploader.artifactStatesMutex # StateUploaderTask

\* upload returned after the states went out in more than one batch
C32_Witness ==
    /\ uploader.pc = "returned"
    /\ Len(uploader.batches) > 1

(***************************************************************************)
(* headerTimesStreamer with the loop of Run (src/agent/                    *)
(* header_times_streamer.go): Run on its goroutine calling Upload, the     *)
(* context of Run, streamingMutex, Scan calls and one call of Stop.  The   *)
(* upload callback returns nothing: whether the times it was given were    *)
(* acknowledged by the server is not known to Upload.                      *)
(***************************************************************************)
RunInit ==
    /\ BootstrapUnused
    /\ process = Unused
    /\ runner = Unused
    /\ cache = Unused
    /\ collector = Unused
    /\ uploader = Unused
    /\ environment = Unused
    /\ merged = Unused
    /\ checkoutPhase = Unused
    /\ commandPhase = Unused
    /\ agents = Unused
    /\ \E n \in 1..MaxScans :
         \E headers \in [1..n -> BOOLEAN] :
           streamer =
             [pc |-> "streaming",
              scans |-> [s \in 1..n |->
                           [pc |-> "idle", header |-> headers[s]]],
              times |-> <<>>, scanWaitGroup |-> 0, uploadWaitGroup |-> 0,
              cursor |-> 0,
              upload |-> [pc |-> "idle", c |-> 0, length |-> 0,
                          payload |-> <<>>],
              stop |-> [pc |-> "idle", recorded |-> {}],
              passed |-> <<>>, calls |-> 0,
              run |-> "idle", streaming |-> FALSE,
              streamingMutex |-> "", ctxDone |-> FALSE,
              acknowledged |-> {}, failed |-> {}]

\* Run is started: h.streaming = true under streamingMutex
RunStart ==
    /\ streamer.pc = "streaming"
    /\ streamer.run = "idle"
    /\ streamer.streamingMutex = ""
    /\ streamer' = [streamer EXCEPT !.run = "Lock", !.streaming = TRUE]
    /\ StreamOnly

\* the context of Run is cancelled
RunCtxCancel ==
    /\ streamer.pc = "streaming"
    /\ ~streamer.ctxDone
    /\ streamer' = [streamer EXCEPT !.ctxDone = TRUE]
    /\ StreamOnly

\* the loop of Run: h.streamingMutex.Lock()
RunLock ==
    /\ streamer.pc = "streaming"
    /\ streamer.run = "Lock"
    /\ streamer.streamingMutex = ""
    /\ streamer' = [streamer EXCEPT !.run = "streaming",
                                    !.streamingMutex = "Run"]
    /\ StreamOnly

\* if !h.streaming { break }, else h.streamingMutex.Unlock() and on to
\* Upload
RunStreaming ==
    /\ streamer.pc = "streaming"
    /\ streamer.run = "streaming"
    /\ streamer' =
         IF ~streamer.streaming
         THEN [streamer EXCEPT !.run = "returned"]
         ELSE [streamer EXCEPT !.run = "Upload", !.streamingMutex = ""]
    /\ StreamOnly

\* Upload up to "Save the cursor we're up to"; Upload returns when nothing
\* is pending
RunUploadPending ==
    /\ streamer.pc = "streaming"
    /\ streamer.run = "Upload"
    /\ LET c == streamer.cursor
           length == Len(streamer.times)
           times == SubSeq(streamer.times, streamer.cursor + 1, length)
           payload == [k \in 1..Len(times) |->
                         [key |-> payloadKey(streamer.cursor, k - 1),
                          time |-> times[k]]]
       IN  streamer' =
             [streamer EXCEPT
                !.cursor = length,
                !.run = IF Len(times) = 0 THEN "select"
                        ELSE "uploadCallback",
                !.upload = [pc |-> "idle", c |-> c, length |-> length,
                            payload |-> payload]]
    /\ StreamOnly

\* h.uploadCallback(ctx, c, length, payload): the server acknowledges the
\* times or the upload fails
RunUploadCallback ==
    /\ streamer.pc = "streaming"
    /\ streamer.run = "uploadCallback"
    /\ LET times == {streamer.upload.payload[k].time :
                        k \in 1..Len(streamer.upload.payload)}
       IN  \E ok \in BOOLEAN :
             streamer' =
               [streamer EXCEPT
                  !.run = "Add",
                  !.passed = @ \o streamer.upload.payload,
                  !.calls = @ + 1,
                  !.acknowledged = IF ok THEN @ \cup times ELSE @,
                  !.failed = IF ok THEN @ ELSE @ \cup times]
    /\ StreamOnly

\* h.uploadWaitGroup.Add(timesToUpload * -1) and the return of Upload
RunUploadAdd ==
    /\ streamer.pc = "streaming"
    /\ streamer.run = "Add"
    /\ LET counter == streamer.uploadWaitGroup
                          - Len(streamer.upload.payload)
       IN  streamer' =
             IF counter < 0
             THEN [streamer EXCEPT !.pc = "panic"]
             ELSE [streamer EXCEPT !.run = "select",
                                   !.uploadWaitGroup = counter]
    /\ StreamOnly

\* select: <-time.After(1 * time.Second), the next round
RunSelectAfter ==
    /\ streamer.pc = "streaming"
    /\ streamer.run = "select"
    /\ streamer' = [streamer EXCEPT !.run = "Lock"]
    /\ StreamOnly

\* select: <-ctx.Done(), return
RunSelectDone ==
    /\ streamer.pc = "streaming"
    /\ streamer.run = "select"
    /\ streamer.ctxDone
    /\ streamer' = [streamer EXCEPT !.run = "returned"]
    /\ StreamOnly

\* Stop: h.uploadWaitGroup.Wait()
RunStopUploadWait ==
    /\ streamer.pc = "streaming"
    /\ streamer.stop.pc = "uploadWaitGroup.Wait"
    /\ WaitGroupWait(streamer.uploadWaitGroup)
    /\ streamer' = [streamer EXCEPT !.stop.pc = "Lock"]
    /\ StreamOnly

\* Stop: h.streamingMutex.Lock()
RunStopLock ==
    /\ streamer.pc = "streaming"
    /\ streamer.stop.pc = "Lock"
    /\ streamer.streamingMutex = ""
    /\ streamer' = [streamer EXCEPT !.stop.pc = "Unlock",
                                    !.streamingMutex = "Stop"]
    /\ StreamOnly

\* Stop: h.streaming = false, h.streamingMutex.Unlock() and the return
RunStopUnlock ==
    /\ streamer.pc = "streaming"
    /\ streamer.stop.pc = "Unlock"
    /\ streamer' = [streamer EXCEPT !.stop.pc = "returned",
                                    !.streaming = FALSE,
                                    !.streamingMutex = ""]
    /\ StreamOnly

RunNext ==
    \/ \E s \in Scans : ScanLine(s)
    \/ \E s \in Scans : ScanAppend(s)
    \/ \E s \in Scans : ScanAdd(s)
    \/ RunStart
    \/ RunCtxCancel
    \/ RunLock
    \/ RunStreaming
    \/ RunUploadPending
    \/ RunUploadCallback
    \/ RunUploadAdd
    \/ RunSelectAfter
    \/ RunSelectDone
    \/ StopCalled
    \/ StopScanWait
    \/ RunStopUploadWait
    \/ RunStopLock
    \/ RunStopUnlock

RunSpec == RunInit /\ [][RunNext]_vars

\* every goroutine that can take a step takes it in the end: the Scan
\* calls, Stop once it was called and Run once it was started; whether and
\* when Run is started, Stop is called and the context is cancelled is up
\* to the caller
RunLiveSpec ==
    /\ RunSpec
    /\ WF_vars(\E s \in Scans : ScanLine(s))
    /\ WF_vars(\E s \in Scans : ScanAppend(s))
    /\ WF_vars(\E s \in Scans : ScanAdd(s))
    /\ WF_vars(RunLock)
    /\ WF_vars(RunStreaming)
    /\ WF_vars(RunUploadPending)
    /\ WF_vars(RunUploadCallback)
    /\ WF_vars(RunUploadAdd)
    /\ WF_vars(RunSelectAfter)
    /\ WF_vars(StopScanWait)
    /\ WF_vars(RunStopUploadWait)
    /\ SF_vars(RunStopLock)
    /\ WF_vars(RunStopUnlock)

\* C33: the cursor passes a time only once the upload of that time has been
\* acknowledged, and a time whose upload failed is pending again (not below
\* the cursor) when Upload has returned.
C33_CursorAdvancesOnAcknowledgement ==
    /\ \A i \in 1..streamer.cursor :
         streamer.times[i] \in streamer.acknowledged
    /\ streamer.run \in {"select", "Lock"}
         => \A i \in 1..streamer.cursor :
               streamer.times[i] \notin streamer.failed

\* C34: the counter of uploadWaitGroup never goes below zero (which is a
\* panic of sync.WaitGroup), whatever the interleaving of Scan and Upload.
C34_UploadWaitGroupNotNegative == streamer.pc # "panic"

\* C35: a call of Stop returns in the end (in an execution where the
\* WaitGroup did not panic), whether or not Run was started and whether or
\* not the context of Run was cancelled.
C35_StopReturns ==
    streamer.stop.pc # "idle"
        ~> (streamer.stop.pc = "returned" \/ streamer.pc = "panic")

\* C36: Run has released streamingMutex when it has returned, so a later
\* Lock of that mutex is not blocked by it.
C36_RunReleasesStreamingMutex ==
    streamer.run = "returned" => streamer.streamingMutex # "Run"

(***************************************************************************)
(* Process.Done and Process.ExitStatus seen from another goroutine         *)
(* (src/process/process.go), under ProcSpec.                               *)
(***************************************************************************)
\* C37: once the channel of Done() is closed, ExitStatus holds the exit
\* status of the child, not the empty string it starts with.
C37_ExitStatusSetWhenDone ==
    process.done > 0 => process.ExitStatus # ""

\* C38: when Start has returned, also with the error of a failed spawn, the
\* done channel has been closed.
C38_DoneClosedWhenStartReturns ==
    process.pc = "returned" => process.done > 0

(***************************************************************************)
(* Bootstrap.DefaultCheckoutPhase (src/bootstrap/git_test.go): the clone   *)
(* or the new origin, git clean, and the fetch and checkout chosen from    *)
(* RefSpec, PullRequest, PipelineProvider and Commit.  Every command run   *)
(* by the shell succeeds or fails.                                         *)
(***************************************************************************)
RefSpecs == {"", "refs/custom"}
PullRequests == {"false", "", "7"}
PipelineProviders == {"github", "github_enterprise", "gitlab"}
Commits == {"HEAD", "abc123"}

\* strings.Contains(b.PipelineProvider, "github")
ContainsGithub(PipelineProvider) ==
    PipelineProvider \in {"github", "github_enterprise"}

\* the pull request is looked at before the refspec
StrategyPullRequestFirst(RefSpec, PullRequest, PipelineProvider, Commit) ==
    IF PullRequest # "false" /\ ContainsGithub(PipelineProvider)
    THEN "pullRequest"
    ELSE IF RefSpec # "" THEN "refspec"
    ELSE IF Commit = "HEAD" THEN "head"
    ELSE "commit"

\* the if / else if chain of DefaultCheckoutPhase
Strategy(RefSpec, PullRequest, PipelineProvider, Commit) ==
    IF RefSpec # "" THEN "refspec"
    ELSE IF PullRequest # "false" /\ ContainsGithub(PipelineProvider)
    THEN "pullRequest"
    ELSE IF Commit = "HEAD" THEN "head"
    ELSE "commit"

\* the first command of a strategy
StrategyFetch ==
    [refspec |-> "fetch RefSpec", pullRequest |-> "fetch refs/pull/N/head",
     head |-> "fetch Branch", commit |-> "fetch Commit"]

GitOnly ==
    UNCHANGED <<bootstrap, process, runner, cache, collector, uploader,
                streamer, environment, merged, commandPhase, agents>>

GitInit ==
    /\ BootstrapUnused
    /\ process = Unused
    /\ runner = Unused
    /\ cache = Unused
    /\ collector = Unused
    /\ uploader = Unused
    /\ streamer = Unused
    /\ environment = Unused
    /\ merged = Unused
    /\ commandPhase = Unused
    /\ agents = Unused
    /\ \E refSpec \in RefSpecs, pullRequest \in PullRequests,
          provider \in PipelineProviders, commit \in Commits,
          gitDir \in BOOLEAN :
         checkoutPhase =
           [pc |-> "start", RefSpec |-> refSpec,
            PullRequest |-> pullRequest, PipelineProvider |-> provider,
            Commit |-> commit, existingGitDir |-> gitDir,
            ran |-> <<>>, err |-> Nil]

\* b.shell.Run(cmd): the command is run; on success the phase goes on at
\* next, on failure it returns the error
GitRun(cmd, ok, next) ==
    IF ok
    THEN [checkoutPhase EXCEPT
            !.pc = next, !.ran = Append(@, [cmd |-> cmd, ok |-> TRUE])]
    ELSE [checkoutPhase EXCEPT
            !.pc = "returned", !.err = OtherError,
            !.ran = Append(@, [cmd |-> cmd, ok |-> FALSE])]

\* b.shell.RunAndCapture(cmd) with its error dropped: the phase goes on
GitRunAndCapture(cmd, ok, next) ==
    [checkoutPhase EXCEPT
        !.pc = next, !.ran = Append(@, [cmd |-> cmd, ok |-> ok])]

\* git remote set-url origin in an existing checkout, git clone otherwise
GitCloneOrSetUrl ==
    /\ checkoutPhase.pc = "start"
    /\ \E ok \in BOOLEAN :
         checkoutPhase' =
           GitRun(IF checkoutPhase.existingGitDir
                  THEN "remote set-url" ELSE "clone", ok, "gitClean")
    /\ GitOnly

\* gitClean before the checkout, then the strategy is chosen
GitCleanBefore ==
    /\ checkoutPhase.pc = "gitClean"
    /\ \E ok \in BOOLEAN :
         checkoutPhase' =
           GitRun("clean", ok,
                  StrategyFetch[Strategy(checkoutPhase.RefSpec,
                                         checkoutPhase.PullRequest,
                                         checkoutPhase.PipelineProvider,
                                         checkoutPhase.Commit)])
    /\ GitOnly

\* git fetch -v --prune origin RefSpec
GitFetchRefSpec ==
    /\ checkoutPhase.pc = "fetch RefSpec"
    /\ \E ok \in BOOLEAN :
         checkoutPhase' = GitRun("fetch RefSpec", ok, "checkout Commit")
    /\ GitOnly

\* git fetch -v origin 'refs/pull/PullRequest/head'
GitFetchPullRequest ==
    /\ checkoutPhase.pc = "fetch refs/pull/N/head"
    /\ \E ok \in BOOLEAN :
         checkoutPhase' =
           GitRun("fetch refs/pull/N/head", ok, "rev-parse FETCH_HEAD")
    /\ GitOnly

\* gitFetchHead, _ := RunAndCapture("git rev-parse FETCH_HEAD")
GitRevParse ==
    /\ checkoutPhase.pc = "rev-parse FETCH_HEAD"
    /\ \E ok \in BOOLEAN :
         checkoutPhase' =
           GitRunAndCapture("rev-parse FETCH_HEAD", ok, "checkout Commit")
    /\ GitOnly

\* git fetch -v --prune origin Branch
GitFetchBranch ==
    /\ checkoutPhase.pc = "fetch Branch"
    /\ \E ok \in BOOLEAN :
         checkoutPhase' = GitRun("fetch Branch", ok, "checkout FETCH_HEAD")
    /\ GitOnly

\* git checkout -f FETCH_HEAD
GitCheckoutFetchHead ==
    /\ checkoutPhase.pc = "checkout FETCH_HEAD"
    /\ \E ok \in BOOLEAN :
         checkoutPhase' = GitRun("checkout FETCH_HEAD", ok, "checkedOut")
    /\ GitOnly

\* git fetch -v origin Commit: a failure leads to the fetch of the
\* configured refspec and the tags
GitFetchCommit ==
    /\ checkoutPhase.pc = "fetch Commit"
    /\ \E ok \in BOOLEAN :
         checkoutPhase' =
           GitRunAndCapture("fetch Commit", ok,
                            IF ok THEN "checkout Commit"
                            ELSE "config remote.origin.fetch")
    /\ GitOnly

\* gitFetchRefspec, _ := RunAndCapture("git config remote.origin.fetch")
GitConfigFetch ==
    /\ checkoutPhase.pc = "config remote.origin.fetch"
    /\ \E ok \in BOOLEAN :
         checkoutPhase' =
           GitRunAndCapture("config remote.origin.fetch", ok,
                            "fetch refspec and tags")
    /\ GitOnly

\* git fetch -v --prune origin gitFetchRefspec +refs/tags/*:refs/tags/*
GitFetchRefspecAndTags ==
    /\ checkoutPhase.pc = "fetch refspec and tags"
    /\ \E ok \in BOOLEAN :
         checkoutPhase' =
           GitRun("fetch refspec and tags", ok, "checkout Commit")
    /\ GitOnly

\* git checkout -f Commit
GitCheckoutCommit ==
    /\ checkoutPhase.pc = "checkout Commit"
    /\ \E ok \in BOOLEAN :
         checkoutPhase' = GitRun("checkout Commit", ok, "checkedOut")
    /\ GitOnly

GitNext ==
    \/ GitCloneOrSetUrl
    \/ GitCleanBefore
    \/ GitFetchRefSpec
    \/ GitFetchPullRequest
    \/ GitRevParse
    \/ GitFetchBranch
    \/ GitCheckoutFetchHead
    \/ GitFetchCommit
    \/ GitConfigFetch
    \/ GitFetchRefspecAndTags
    \/ GitCheckoutCommit

GitSpec == GitInit /\ [][GitNext]_vars

\* the fetches and checkouts run so far, in order
FetchesAndCheckouts ==
    LET ran == SelectSeq(checkoutPhase.ran,
                         LAMBDA e : e.cmd \in {"fetch RefSpec",
                                               "fetch refs/pull/N/head",
                                               "fetch Branch",
                                               "fetch Commit",
                                               "fetch refspec and tags",
                                               "checkout Commit",
                                               "checkout FETCH_HEAD"})
    IN  [k \in 1..Len(ran) |-> ran[k].cmd]

\* the fetches and checkouts of the strategy the priority of the claim
\* chooses; the second one of the last strategy is run when the fetch of the
\* commit failed
ClaimedFetchesAndCheckouts ==
    LET c == checkoutPhase
        fetchCommitFailed ==
            \E k \in 1..Len(c.ran) :
                c.ran[k].cmd = "fetch Commit" /\ ~c.ran[k].ok
    IN  IF c.RefSpec # ""
        THEN <<"fetch RefSpec", "checkout Commit">>
        ELSE IF c.PullRequest # "false" /\ ContainsGithub(c.PipelineProvider)
        THEN <<"fetch refs/pull/N/head", "checkout Commit">>
        ELSE IF c.Commit = "HEAD"
        THEN <<"fetch Branch", "checkout FETCH_HEAD">>
        ELSE IF fetchCommitFailed
        THEN <<"fetch Commit", "fetch refspec and tags", "checkout Commit">>
        ELSE <<"fetch Commit", "checkout Commit">>

\* one strategy, the one of the claimed priority, is applied, and a failed
\* command outside `tolerated` is the last one run and ends the phase with
\* an error
OneStrategy(tolerated) ==
    LET c == checkoutPhase
    IN  /\ IsPrefix(FetchesAndCheckouts, ClaimedFetchesAndCheckouts)
        /\ c.pc = "checkedOut"
             => FetchesAndCheckouts = ClaimedFetchesAndCheckouts
        /\ \A k \in 1..Len(c.ran) :
             ~c.ran[k].ok /\ c.ran[k].cmd \notin tolerated
                => /\ k = Len(c.ran)
                   /\ c.pc = "returned"
                   /\ c.err # Nil
        /\ c.pc = "returned"
             => ~c.ran[Len(c.ran)].ok /\ c.err # Nil

\* C39 (as claimed): exactly one strategy is applied, chosen by the priority
\* refspec, pull request on GitHub, HEAD, commit, and every failing git
\* command but the first fetch of the commit ends the phase with an error.
C39_OneStrategyByPriority == OneStrategy({"fetch Commit"})

\* C39 (amended): as claimed, except that the two commands whose output is
\* only captured (git rev-parse FETCH_HEAD after the fetch of a pull request
\* and git config remote.origin.fetch before the fetch of refspec and tags)
\* may fail too without ending the phase.
C39_OneStrategyCapturesIgnored ==
    OneStrategy({"fetch Commit", "rev-parse FETCH_HEAD",
                 "config remote.origin.fetch"})

\* the commit was checked out after its own fetch failed and the fetch of
\* refspec and tags succeeded
C39_Witness ==
    /\ checkoutPhase.pc = "checkedOut"
    /\ FetchesAndCheckouts
         = <<"fetch Commit", "fetch refspec and tags", "checkout Commit">>

(***************************************************************************)
(* The end of Bootstrap.DefaultCheckoutPhase (src/bootstrap/git_test.go):  *)
(* the jobs of one build send the commit and the branch to the meta-data   *)
(* of the build when `buildkite-agent meta-data exists` fails.             *)
(***************************************************************************)
BuildJobs == {"job1", "job2"}

\* buildkite-agent meta-data exists key: no error when the key is set, an
\* error when it is not set or when the command could not ask
MetaDataExists(metaData, key) ==
    IF key \in metaData THEN {Nil} ELSE {OtherError}

MetaInit ==
    /\ BootstrapUnused
    /\ process = Unused
    /\ runner = Unused
    /\ cache = Unused
    /\ collector = Unused
    /\ uploader = Unused
    /\ streamer = Unused
    /\ environment = Unused
    /\ merged = Unused
    /\ commandPhase = Unused
    /\ agents = Unused
    /\ \E tokens \in [BuildJobs -> {"", "token"}] :
         checkoutPhase =
           [pc |-> [j \in BuildJobs |-> "gitClean"],
            BUILDKITE_AGENT_ACCESS_TOKEN |-> tokens,
            err |-> [j \in BuildJobs |-> Nil],
            existed |-> [j \in BuildJobs |-> FALSE],
            metaData |-> {},
            sent |-> <<>>]

\* gitClean after the checkout, then the test of
\* BUILDKITE_AGENT_ACCESS_TOKEN
MetaToken(j) ==
    /\ checkoutPhase.pc[j] = "gitClean"
    /\ \E ok \in BOOLEAN :
         checkoutPhase' =
           IF ~ok
           THEN [checkoutPhase EXCEPT !.pc[j] = "returned",
                                      !.err[j] = OtherError]
           ELSE IF checkoutPhase.BUILDKITE_AGENT_ACCESS_TOKEN[j] = ""
           THEN [checkoutPhase EXCEPT !.pc[j] = "returned"]
           ELSE [checkoutPhase EXCEPT !.pc[j] = "exists"]
    /\ GitOnly

\* buildkite-agent meta-data exists buildkite:git:commit
MetaExists(j) ==
    /\ checkoutPhase.pc[j] = "exists"
    /\ \E err \in MetaDataExists(checkoutPhase.metaData,
                                 "buildkite:git:commit") :
         checkoutPhase' =
           IF err # Nil
           THEN [checkoutPhase EXCEPT !.pc[j] = "set commit"]
           ELSE [checkoutPhase EXCEPT !.pc[j] = "returned",
                                      !.existed[j] = TRUE]
    /\ GitOnly

\* buildkite-agent meta-data set buildkite:git:commit
MetaSetCommit(j) ==
    /\ checkoutPhase.pc[j] = "set commit"
    /\ \E ok \in BOOLEAN :
         checkoutPhase' =
           IF ok
           THEN [checkoutPhase EXCEPT
                   !.pc[j] = "set branch",
                   !.metaData = @ \cup {"buildkite:git:commit"},
                   !.sent = Append(@, [job |-> j,
                                       key |-> "buildkite:git:commit"])]
           ELSE [checkoutPhase EXCEPT !.pc[j] = "returned",
                                      !.err[j] = OtherError]
    /\ GitOnly

\* buildkite-agent meta-data set buildkite:git:branch
MetaSetBranch(j) ==
    /\ checkoutPhase.pc[j] = "set branch"
    /\ \E ok \in BOOLEAN :
         checkoutPhase' =
           IF ok
           THEN [checkoutPhase EXCEPT
                   !.pc[j] = "returned",
                   !.metaData = @ \cup {"buildkite:git:branch"},
                   !.sent = Append(@, [job |-> j,
                                       key |-> "buildkite:git:branch"])]
           ELSE [checkoutPhase EXCEPT !.pc[j] = "returned",
                                      !.err[j] = OtherError]
    /\ GitOnly

MetaNext ==
    \E j \in BuildJobs :
        \/ MetaToken(j)
        \/ MetaExists(j)
        \/ MetaSetCommit(j)
        \/ MetaSetBranch(j)

MetaSpec == MetaInit /\ [][MetaNext]_vars

\* C40: the commit and the branch are each sent at most once to the
\* meta-data of the build, by a job with a token.
C40_MetadataSentOnce ==
    /\ \A i, k \in 1..Len(checkoutPhase.sent) :
         i # k => checkoutPhase.sent[i].key # checkoutPhase.sent[k].key
    /\ \A i \in 1..Len(checkoutPhase.sent) :
         checkoutPhase.BUILDKITE_AGENT_ACCESS_TOKEN
            [checkoutPhase.sent[i].job] # ""

====
